---- MODULE Spec2Model ----
(***************************************************************************)
(* Stage pipeline and artifact store of the AiPodcast webhooks:            *)
(*   receive  (src/app/api/webhook/transcript/route.ts)                    *)
(*   process  (src/app/api/webhook/process/route.ts, POST)                 *)
(*   approve  (src/app/api/webhook/approve/route.ts)                       *)
(*   download (src/app/api/webhook/process/route.ts, GET)                  *)
(* Strings the code inspects character by character are sequences of       *)
(* one-character strings; JavaScript values that may be undefined, null,   *)
(* a boolean or a string are tagged records.                               *)
(***************************************************************************)
EXTENDS Integers, Sequences, FiniteSets, TLC

VARIABLES
    env,        \* process.env, fixed for the lifetime of the process
    dirExists,  \* whether ARCHIVE_DIR exists on disk
    files,      \* ARCHIVE_DIR: filename -> bytes
    bucket,     \* the remote bucket: whether it exists and its policy
    resp,       \* the response of the last call of a stage, with what the call did
    clock,      \* Date.now()
    issued,     \* history: the job ids receive has returned, in call order
    approved,   \* history: job id -> the bytes its latest successful approve wrote
    owner,      \* history: filename -> the job id of the approve that last wrote it
    fnCall,     \* the last application of a pure derivation, with its inputs
    calls,      \* the approve calls in flight: call -> its position and locals
    ui          \* the state of the client page (src/app/page.tsx) and its storage

vars == <<env, dirExists, files, bucket, resp, clock, issued, approved, owner, fnCall,
          calls, ui>>

(***************************************************************************)
(* JavaScript values                                                       *)
(***************************************************************************)
Undef == [t |-> "undefined"]
JNull == [t |-> "null"]
Str(s) == [t |-> "string", s |-> s]
Bool(b) == [t |-> "bool", b |-> b]
Obj == [t |-> "object"]
ObjWith(keys) == [t |-> "object", keys |-> keys]
Arr(a) == [t |-> "array", a |-> a]

\* ToBoolean, as applied by !x, x || y and if (x)
Truthy(v) ==
    CASE v.t = "undefined" -> FALSE
      [] v.t = "null" -> FALSE
      [] v.t = "bool" -> v.b
      [] v.t = "string" -> Len(v.s) > 0
      [] OTHER -> TRUE

\* x ?? y takes y exactly when x is undefined or null
Nullish(v) == v.t \in {"undefined", "null"}

(***************************************************************************)
(* String helpers: String.prototype.includes, endsWith, substring          *)
(***************************************************************************)
Includes(s, sub) ==
    \E i \in 0..(Len(s) - Len(sub)) : SubSeq(s, i + 1, i + Len(sub)) = sub

EndsWith(s, suf) ==
    /\ Len(suf) <= Len(s)
    /\ SubSeq(s, Len(s) - Len(suf) + 1, Len(s)) = suf

Min(a, b) == IF a < b THEN a ELSE b

\* s.substring(from, to) for 0 <= from <= to
Substring(s, from, to) == SubSeq(s, Min(from, Len(s)) + 1, Min(to, Len(s)))

\* s.substring(from)
SubstringFrom(s, from) == SubSeq(s, Min(from, Len(s)) + 1, Len(s))

Digits == {"0", "1", "2", "3", "4", "5", "6", "7", "8", "9"}
LowerLetters ==
    {"a", "b", "c", "d", "e", "f", "g", "h", "i", "j", "k", "l", "m",
     "n", "o", "p", "q", "r", "s", "t", "u", "v", "w", "x", "y", "z"}
UpperLetters ==
    {"A", "B", "C", "D", "E", "F", "G", "H", "I", "J", "K", "L", "M",
     "N", "O", "P", "Q", "R", "S", "T", "U", "V", "W", "X", "Y", "Z"}

(***************************************************************************)
(* Filename derivation (approve/route.ts 68-69 and 77, 187-188)            *)
(***************************************************************************)
Alnum == Digits \cup LowerLetters \cup UpperLetters

\* the title slug is cut to this many UTF-16 units
SlugMax == 50

PODCAST == <<"p", "o", "d", "c", "a", "s", "t">>
MP3 == <<".", "m", "p", "3">>

\* s.replace(/[^a-z0-9]/gi, '_')
ReplaceNonAlnum(s) == [i \in 1..Len(s) |-> IF s[i] \in Alnum THEN s[i] ELSE "_"]

\* .replace(/[^a-z0-9]/gi, '_').substring(0, 50)
Sanitize(s) == Substring(ReplaceNonAlnum(s), 0, SlugMax)

\* POST: (title || 'podcast'), sanitized
SafeTitleLocal(title) == Sanitize(IF Truthy(title) THEN title.s ELSE PODCAST)

\* POST passes title ?? 'podcast' to uploadToMinIOStorage
TitleOrDefault(title) == IF Nullish(title) THEN PODCAST ELSE title.s

\* `${safeTitle}_${jobId}.mp3`
Filename(safeTitle, jobId) == safeTitle \o <<"_">> \o jobId \o MP3

LocalFilename(title, jobId) == Filename(SafeTitleLocal(title), jobId)

\* uploadToMinIOStorage sanitizes the title it is given
RemoteKey(title, jobId) == Filename(Sanitize(TitleOrDefault(title)), jobId)

(***************************************************************************)
(* Numbers and URLs: parseInt, Number.prototype.toString, new URL          *)
(***************************************************************************)
\* parseInt's NaN; every number the model parses is non-negative
NaN == -1

DigitSeq == <<"0", "1", "2", "3", "4", "5", "6", "7", "8", "9">>

DigitVal(c) == (CHOOSE i \in 1..10 : DigitSeq[i] = c) - 1

\* the length of the longest prefix of s made of digits
RECURSIVE DigitPrefixLen(_)
DigitPrefixLen(s) ==
    IF s = <<>> \/ Head(s) \notin Digits THEN 0 ELSE 1 + DigitPrefixLen(Tail(s))

RECURSIVE DigitsValue(_)
DigitsValue(s) ==
    IF s = <<>> THEN 0 ELSE 10 * DigitsValue(SubSeq(s, 1, Len(s) - 1)) + DigitVal(s[Len(s)])

\* parseInt(s): the leading digits of s, NaN when there are none
ParseInt(s) ==
    LET n == DigitPrefixLen(s)
    IN  IF n = 0 THEN NaN ELSE DigitsValue(SubSeq(s, 1, n))

\* n.toString() for an integer n >= 0
RECURSIVE ToDigits(_)
ToDigits(n) ==
    IF n < 10 THEN <<DigitSeq[n + 1]>> ELSE ToDigits(n \div 10) \o <<DigitSeq[(n % 10) + 1]>>

UpperSeq ==
    <<"A", "B", "C", "D", "E", "F", "G", "H", "I", "J", "K", "L", "M",
      "N", "O", "P", "Q", "R", "S", "T", "U", "V", "W", "X", "Y", "Z">>
LowerSeq ==
    <<"a", "b", "c", "d", "e", "f", "g", "h", "i", "j", "k", "l", "m",
      "n", "o", "p", "q", "r", "s", "t", "u", "v", "w", "x", "y", "z">>

ToLower(s) ==
    [i \in 1..Len(s) |->
        IF s[i] \in UpperLetters
        THEN LowerSeq[CHOOSE k \in 1..26 : UpperSeq[k] = s[i]]
        ELSE s[i]]

\* the least index i >= from with s[i] in cs, 0 when there is none
IndexOfAny(s, cs, from) ==
    LET hits == {i \in from..Len(s) : s[i] \in cs}
    IN  IF hits = {} THEN 0 ELSE CHOOSE i \in hits : \A j \in hits : i <= j

\* the greatest index i with s[i] = c, 0 when there is none
LastIndexOf(s, c) ==
    LET hits == {i \in 1..Len(s) : s[i] = c}
    IN  IF hits = {} THEN 0 ELSE CHOOSE i \in hits : \A j \in hits : i >= j

HTTP == <<"h", "t", "t", "p">>
HTTPS == <<"h", "t", "t", "p", "s">>
SchemeSep == <<":", "/", "/">>

\* the schemes the URL standard calls special, with their default ports
SpecialSchemes == {HTTP, HTTPS, <<"w", "s">>, <<"w", "s", "s">>, <<"f", "t", "p">>}
DefaultPort(scheme) ==
    CASE scheme \in {HTTP, <<"w", "s">>} -> 80
      [] scheme \in {HTTPS, <<"w", "s", "s">>} -> 443
      [] scheme = <<"f", "t", "p">> -> 21
      [] OTHER -> NaN

HostChars == Alnum \cup {".", "-"}
SchemeChars == Alnum \cup {"+", "-", "."}
URLPortMax == 65535

URLFailure == [ok |-> FALSE]

\* new URL(s), by the URL standard's steps for a URL with an authority.
\* ok is FALSE where the constructor throws; protocol is the scheme in lower
\* case (without the ':'), port is '' when absent or the scheme's default.
URLOfParts(scheme, host, portStr) ==
    IF \/ \E i \in 1..Len(portStr) : portStr[i] \notin Digits
       \/ (portStr # <<>> /\ DigitsValue(portStr) > URLPortMax)
       \/ \E i \in 1..Len(host) : host[i] \notin HostChars
       \/ (scheme \in SpecialSchemes /\ host = <<>>)
    THEN URLFailure
    ELSE [ok |-> TRUE,
          protocol |-> scheme,
          hostname |-> ToLower(host),
          port |-> IF portStr = <<>> \/ DigitsValue(portStr) = DefaultPort(scheme)
                   THEN <<>> ELSE ToDigits(DigitsValue(portStr))]

\* host and port are split at the last ':' of host:port
SplitHostPort(scheme, hostport, pc) ==
    IF pc = 0
    THEN URLOfParts(scheme, hostport, <<>>)
    ELSE URLOfParts(scheme, SubSeq(hostport, 1, pc - 1),
                    SubSeq(hostport, pc + 1, Len(hostport)))

\* the authority without its userinfo
HostPortOf(auth) == SubSeq(auth, LastIndexOf(auth, "@") + 1, Len(auth))

\* the authority ends at the first '/', '?' or '#'
AuthorityOf(afterSlashes) ==
    LET stop == IndexOfAny(afterSlashes, {"/", "?", "#"}, 1)
    IN  IF stop = 0 THEN afterSlashes ELSE SubSeq(afterSlashes, 1, stop - 1)

ParseAfterScheme(scheme, rest) ==
    IF Len(rest) >= 2 /\ rest[1] = "/" /\ rest[2] = "/"
    THEN SplitHostPort(scheme,
                       HostPortOf(AuthorityOf(SubSeq(rest, 3, Len(rest)))),
                       LastIndexOf(HostPortOf(AuthorityOf(SubSeq(rest, 3, Len(rest)))), ":"))
    ELSE IF scheme \in SpecialSchemes
    THEN URLFailure
    ELSE [ok |-> TRUE, protocol |-> scheme, hostname |-> <<>>, port |-> <<>>]

ParseFromColon(s, colon) ==
    IF \/ colon <= 1
       \/ s[1] \notin (LowerLetters \cup UpperLetters)
       \/ \E i \in 1..(colon - 1) : s[i] \notin SchemeChars
    THEN URLFailure
    ELSE ParseAfterScheme(ToLower(SubSeq(s, 1, colon - 1)),
                          SubSeq(s, colon + 1, Len(s)))

ParseURL(s) == ParseFromColon(s, IndexOfAny(s, {":"}, 1))

(***************************************************************************)
(* StorageTarget resolution from process.env                               *)
(***************************************************************************)
DefaultEndpoint == <<"m", "i", "n", "i", "o", "2", "-", "a", "p", "i", ".", "a", "i", "h", "u", "b", ".", "o", "v", "h">>
TRUESTR == <<"t", "r", "u", "e">>
PORT443 == <<"4", "4", "3">>

\* v || d for an environment variable v
OrDefault(v, d) == IF Truthy(v) THEN v.s ELSE d

\* url.port ? parseInt(url.port) : (url.protocol === 'https:' ? 443 : 80)
URLPortOrDefault(url) ==
    IF url.port # <<>> THEN ParseInt(url.port)
    ELSE IF url.protocol = HTTPS THEN 443 ELSE 80

\* a resolution from the separate settings alone
ResolveTargetSeparateConfig(e) ==
    [endPoint |-> OrDefault(e.MINIO_ENDPOINT, DefaultEndpoint),
     port |-> ParseInt(OrDefault(e.MINIO_PORT, PORT443)),
     useSSL |-> (e.MINIO_USE_SSL = Str(TRUESTR))]

\* uploadToMinIOStorage, "Parse endpoint - support full URLs or separate config"
ResolveTargetApprove(e) ==
    LET endPoint == OrDefault(e.MINIO_ENDPOINT, DefaultEndpoint)
        port == ParseInt(OrDefault(e.MINIO_PORT, PORT443))
        useSSL == (e.MINIO_USE_SSL = Str(TRUESTR))
        url == ParseURL(endPoint)
    IN  IF Includes(endPoint, SchemeSep)
        THEN IF url.ok
             THEN [endPoint |-> url.hostname,
                   port |-> URLPortOrDefault(url),
                   useSSL |-> (url.protocol = HTTPS)]
             ELSE [endPoint |-> endPoint, port |-> port, useSSL |-> useSSL]
        ELSE IF port = 443
        THEN [endPoint |-> endPoint, port |-> port, useSSL |-> TRUE]
        ELSE [endPoint |-> endPoint, port |-> port, useSSL |-> useSSL]

\* a resolution that never forces TLS on for port 443
ResolveTargetTlsFromFlag(e) ==
    [endPoint |-> OrDefault(e.MINIO_ENDPOINT, DefaultEndpoint),
     port |-> ParseInt(OrDefault(e.MINIO_PORT, PORT443)),
     useSSL |-> (e.MINIO_USE_SSL = Str(TRUESTR) /\ ~Includes(OrDefault(e.MINIO_ENDPOINT, DefaultEndpoint), SchemeSep))]

\* test-minio GET, "Parse endpoint"
ResolveTargetTestMinio(e) ==
    LET endPoint == OrDefault(e.MINIO_ENDPOINT, DefaultEndpoint)
        port == ParseInt(OrDefault(e.MINIO_PORT, PORT443))
        useSSL == \/ e.MINIO_USE_SSL = Str(TRUESTR)
                  \/ Includes(endPoint, HTTPS \o SchemeSep)
                  \/ port = 443
        url == ParseURL(endPoint)
    IN  IF Includes(endPoint, SchemeSep) /\ url.ok
        THEN [endPoint |-> url.hostname,
              port |-> URLPortOrDefault(url),
              useSSL |-> (url.protocol = HTTPS)]
        ELSE [endPoint |-> endPoint, port |-> port, useSSL |-> useSSL]


(***************************************************************************)
(* approve: the remote mirror (uploadToMinIOStorage)                       *)
(***************************************************************************)
\* presignedGetObject(bucketName, filename, 7 * 24 * 60 * 60)
PresignExpiry == 604800

\* the calls of uploadToMinIOStorage that can throw
\* (parsePolicy is the JSON.parse of the policy document)
RemoteOps ==
    {"import", "newClient", "bucketExists", "makeBucket", "setBucketPolicy",
     "putObject", "getBucketPolicy", "parsePolicy", "presignedGetObject"}

\* the calls that reach the storage service
ServiceOps == RemoteOps \ {"import", "newClient", "parsePolicy"}

NoUrl == [kind |-> "none"]

\* `${protocol}://${endPoint}:${port}/${bucketName}/${filename}`
DirectUrl(tgt, bucketName, filename) ==
    [kind |-> "direct",
     protocol |-> IF tgt.useSSL THEN HTTPS ELSE HTTP,
     endPoint |-> tgt.endPoint,
     port |-> tgt.port,
     bucketName |-> bucketName,
     filename |-> filename]

\* what presignedGetObject(bucketName, filename, expiry) returns
PresignedUrl(bucketName, filename, expiry) ==
    [kind |-> "presigned", bucketName |-> bucketName, filename |-> filename,
     expiry |-> expiry]

\* "Generate URL - use public URL if bucket is public, otherwise presigned URL":
\* the try block of lines 197-217; faults are the calls that throw when made,
\* and every throw inside the block lands in its catch
IssueUrl(tgt, bucketName, filename, faults, bkt) ==
    LET direct == DirectUrl(tgt, bucketName, filename)
    IN  IF "getBucketPolicy" \in faults
        THEN [url |-> direct, ops |-> <<"getBucketPolicy">>]
        ELSE IF "parsePolicy" \in faults
        THEN [url |-> direct, ops |-> <<"getBucketPolicy", "parsePolicy">>]
        ELSE IF bkt.policy = "public"
        THEN [url |-> direct, ops |-> <<"getBucketPolicy", "parsePolicy">>]
        ELSE IF "presignedGetObject" \in faults
        THEN [url |-> direct,
              ops |-> <<"getBucketPolicy", "parsePolicy", "presignedGetObject">>]
        ELSE [url |-> PresignedUrl(bucketName, filename, PresignExpiry),
              ops |-> <<"getBucketPolicy", "parsePolicy", "presignedGetObject">>]

\* the result of the catch of lines 223-229, and of the missing-credentials return
UploadFailed(ops, bkt) ==
    [success |-> FALSE, url |-> NoUrl, ops |-> ops, bucket |-> bkt, key |-> <<>>]

\* an upload that gives up only when both credentials are missing
CredentialsMissingBoth(e) ==
    ~Truthy(e.MINIO_ACCESS_KEY) /\ ~Truthy(e.MINIO_SECRET_KEY)

\* !process.env.MINIO_ACCESS_KEY || !process.env.MINIO_SECRET_KEY
CredentialsMissing(e) ==
    ~Truthy(e.MINIO_ACCESS_KEY) \/ ~Truthy(e.MINIO_SECRET_KEY)

\* uploadToMinIOStorage(audioBase64, title, jobId) against bucket state bkt
\* (the object bytes it stores are never read back and are not kept)
UploadToMinIOStorage(title, jobId, faults, bkt) ==
    LET tgt == ResolveTargetApprove(env)
        bucketName == OrDefault(env.MINIO_BUCKET_NAME, PODCAST)
        filename == Filename(Sanitize(title), jobId)
        ops1 == <<"import", "newClient", "bucketExists">>
        ops2 == IF bkt.exists THEN ops1 ELSE Append(ops1, "makeBucket")
        b2 == IF bkt.exists THEN bkt ELSE [exists |-> TRUE, policy |-> "private"]
        b3 == IF "setBucketPolicy" \in faults THEN b2
              ELSE [b2 EXCEPT !.policy = "public"]
        ops3 == ops2 \o <<"setBucketPolicy", "putObject">>
        iss == IssueUrl(tgt, bucketName, filename, faults, b3)
    IN  IF "import" \in faults
        THEN UploadFailed(<<"import">>, bkt)
        ELSE IF CredentialsMissing(env)
        THEN UploadFailed(<<"import">>, bkt)
        ELSE IF "newClient" \in faults
        THEN UploadFailed(<<"import", "newClient">>, bkt)
        ELSE IF "bucketExists" \in faults
        THEN UploadFailed(ops1, bkt)
        ELSE IF ~bkt.exists /\ "makeBucket" \in faults
        THEN UploadFailed(ops2, bkt)
        ELSE IF "putObject" \in faults
        THEN UploadFailed(ops3, b3)
        ELSE [success |-> TRUE,
              url |-> iss.url,
              ops |-> ops3 \o iss.ops,
              bucket |-> b3,
              key |-> filename]

(***************************************************************************)
(* approve: POST                                                           *)
(***************************************************************************)
\* base64 quanta and the bytes Buffer.from(_, 'base64') decodes them to
B64Quanta == {"QQ==", "QkM="}
B64Decode(q) == IF q = "QQ==" THEN <<65>> ELSE <<66, 67>>

\* audioBase64 is a sequence of tokens: a data-URL header, ',' or a quantum
\* audioBase64.includes(',') ? audioBase64.split(',')[1] : audioBase64
Base64Data(audioBase64) ==
    LET c1 == IndexOfAny(audioBase64, {","}, 1)
        after == SubSeq(audioBase64, c1 + 1, Len(audioBase64))
        c2 == IndexOfAny(after, {","}, 1)
    IN  IF c1 = 0 THEN audioBase64
        ELSE IF c2 = 0 THEN after ELSE SubSeq(after, 1, c2 - 1)

\* Buffer.from(base64Data, 'base64'): tokens that are not base64 are skipped
RECURSIVE BufferFromBase64(_)
BufferFromBase64(d) ==
    IF d = <<>> THEN <<>>
    ELSE (IF Head(d) \in B64Quanta THEN B64Decode(Head(d)) ELSE <<>>)
         \o BufferFromBase64(Tail(d))

DefaultAppUrl == <<"h", "t", "t", "p", ":", "/", "/", "l", "o", "c", "a", "l", "h", "o", "s", "t", ":", "3", "0", "0", "0">>
DownloadPath == <<"/", "a", "p", "i", "/", "w", "e", "b", "h", "o", "o", "k", "/", "d", "o", "w", "n", "l", "o", "a", "d", "/">>

\* `${process.env.NEXT_PUBLIC_APP_URL || 'http://localhost:3000'}/api/webhook/download/${jobId}`
LocalDownloadUrl(jobId) ==
    [kind |-> "local",
     base |-> OrDefault(env.NEXT_PUBLIC_APP_URL, DefaultAppUrl),
     path |-> DownloadPath,
     jobId |-> jobId]

\* a validation that only asks for the field to be there
InvalidConversationMissingOnly(conversation) == ~Truthy(conversation)

\* !conversation || !Array.isArray(conversation) || conversation.length === 0
InvalidConversation(conversation) ==
    \/ ~Truthy(conversation)
    \/ conversation.t # "array"
    \/ Len(conversation.a) = 0

\* an upload unless the caller says false
UploadRequestedUnlessFalse(uploadToMinIO) == uploadToMinIO # Bool(FALSE)

\* if (uploadToMinIO)
UploadRequested(uploadToMinIO) == Truthy(uploadToMinIO)

NoOps == <<>>

\* an error envelope that carries success: false
ErrorResponseWithSuccess(stage, req, status, error, ops) ==
    [stage |-> stage, req |-> req, status |-> status,
     body |-> [success |-> FALSE, error |-> error], ops |-> ops, faults |-> {}]

\* NextResponse.json({ error }, { status }), with the calls made (ops) and the
\* calls that would have thrown (faults) kept beside it
ErrorResponse(stage, req, status, error, ops) ==
    [stage |-> stage, req |-> req, status |-> status,
     body |-> [error |-> error], ops |-> ops, faults |-> {}]

\* a handler that swallows the errors of the filesystem
ThrowsNever(fsFault, call) == FALSE

\* await fs.mkdir(...) / await fs.writeFile(...): the rejection of the failing
\* call leaves the try block
Throws(fsFault, call) == fsFault = call

\* an approve that mirrors before it writes locally
CallOrderRemoteFirst(local, remote) == remote \o local

\* "Save file locally first", then "Upload to MinIO if requested"
CallOrder(local, remote) == local \o remote

\* the approve handler on request req when createDialogue answers tts, the
\* local filesystem fails at fsFault and the remote calls in faults throw
ApprovePOST(req, tts, fsFault, faults) ==
    LET same == [dirExists |-> dirExists, files |-> files, bucket |-> bucket]
        filename == LocalFilename(req.title, req.jobId.s)
        audioBuffer == BufferFromBase64(Base64Data(tts.audioBase64))
        mkdir == IF dirExists THEN <<>> ELSE <<"mkdir">>
        opsLocal == <<"createDialogue", "access">> \o mkdir \o <<"writeFile">>
        up == IF UploadRequested(req.uploadToMinIO)
              THEN UploadToMinIOStorage(TitleOrDefault(req.title), req.jobId.s,
                                        faults, bucket)
              ELSE UploadFailed(NoOps, bucket)
        minioUrl == IF up.success THEN up.url ELSE NoUrl
        downloadUrl == IF minioUrl # NoUrl THEN minioUrl
                       ELSE LocalDownloadUrl(req.jobId.s)
    IN  IF InvalidConversation(req.conversation)
        THEN same @@ [resp |-> ErrorResponse("approve", req, 400,
                                "Valid conversation is required", NoOps)]
        ELSE IF ~Truthy(req.jobId)
        THEN same @@ [resp |-> ErrorResponse("approve", req, 400,
                                "Job ID is required", NoOps)]
        ELSE IF ~tts.ok
        THEN same @@ [resp |-> ErrorResponse("approve", req, 500,
                                tts.error, <<"createDialogue">>)]
        ELSE IF ~dirExists /\ Throws(fsFault, "mkdir")
        THEN same @@ [resp |-> ErrorResponse("approve", req, 500,
                                "Failed to generate audio",
                                <<"createDialogue", "access", "mkdir">>)]
        ELSE IF Throws(fsFault, "writeFile")
        THEN [dirExists |-> TRUE, files |-> files, bucket |-> bucket,
              resp |-> ErrorResponse("approve", req, 500,
                                "Failed to generate audio", opsLocal)]
        ELSE [dirExists |-> TRUE,
              files |-> (filename :> audioBuffer) @@ files,
              bucket |-> up.bucket,
              resp |-> [stage |-> "approve", req |-> req, status |-> 200,
                        body |-> [success |-> TRUE,
                                  jobId |-> req.jobId.s,
                                  downloadUrl |-> downloadUrl,
                                  minioUrl |-> minioUrl,
                                  filename |-> filename,
                                  message |-> "Audio generated successfully"],
                        ops |-> CallOrder(opsLocal, up.ops),
                        faults |-> faults,
                        written |-> audioBuffer,
                        remoteKey |-> up.key]]

(***************************************************************************)
(* download: GET                                                           *)
(***************************************************************************)
\* a lookup that forgets the job id
MatchingFilesAnyMp3(jobId) == {f \in DOMAIN files : EndsWith(f, MP3)}

\* files.find(file => file.includes(jobId) && file.endsWith('.mp3')) returns
\* the first of these in readdir's order, which the filesystem decides
MatchingFiles(jobId) ==
    {f \in DOMAIN files : Includes(f, jobId) /\ EndsWith(f, MP3)}

\* the download handler when find settles on matchingFile (any member of
\* MatchingFiles; unused when there is none)
DownloadGET(req, matchingFile) ==
    IF ~Truthy(req.jobId)
    THEN ErrorResponse("download", req, 400, "Job ID is required", NoOps)
    ELSE IF ~dirExists
    THEN ErrorResponse("download", req, 500, "Failed to serve file", <<"readdir">>)
    ELSE IF MatchingFiles(req.jobId.s) = {}
    THEN ErrorResponse("download", req, 404, "File not found for this job ID",
                       <<"readdir">>)
    ELSE [stage |-> "download", req |-> req, status |-> 200,
          body |-> files[matchingFile],
          headers |-> [ContentType |-> "audio/mpeg",
                       ContentDisposition |-> matchingFile,
                       ContentLength |-> Len(files[matchingFile])],
          ops |-> <<"readdir", "readFile">>, faults |-> {}]


(***************************************************************************)
(* The artifact store: approve and download calls in any order             *)
(***************************************************************************)
\* how many remote calls of one upload may throw
MaxFaults == 2

\* job ids: JOne is a substring of J_1, and with the titles 'a' and 'a j' the
\* two derive one filename: 'a' + '_' + 'j_1' = 'a_j' + '_' + '1'
JOne == <<"1">>
J_1 == <<"j", "_", "1">>
J9 == <<"j", "9">>

NoEnv ==
    [MINIO_ENDPOINT |-> Undef, MINIO_PORT |-> Undef, MINIO_USE_SSL |-> Undef,
     MINIO_ACCESS_KEY |-> Undef, MINIO_SECRET_KEY |-> Undef,
     MINIO_BUCKET_NAME |-> Undef, NEXT_PUBLIC_APP_URL |-> Undef,
     OPENROUTER_API_KEY |-> Undef, OPENAI_API_KEY |-> Undef]

StoreEnvs ==
    {[NoEnv EXCEPT !.MINIO_ACCESS_KEY = Str(<<"k">>), !.MINIO_SECRET_KEY = Str(<<"s">>)],
     [NoEnv EXCEPT !.MINIO_ACCESS_KEY = Str(<<"k">>),
                   !.NEXT_PUBLIC_APP_URL = Str(<<"h", "t", "t", "p", ":", "/", "/", "x">>)],
     [NoEnv EXCEPT !.MINIO_SECRET_KEY = Str(<<"s">>)]}

DownloadJobIds == {Str(<<>>), Str(JOne), Str(J_1), Str(J9)}

TtsFailure == [ok |-> FALSE, error |-> "Failed to create dialogue"]
TtsPlain == [ok |-> TRUE, audioBase64 |-> <<"QQ==">>]
TtsDataUrl == [ok |-> TRUE, audioBase64 |-> <<"data:audio/mpeg;base64", ",", "QkM=">>]

OneTurn == Arr(<<[speaker |-> "Speaker1", text |-> "Hi"]>>)

FsFaults == {"none", "mkdir", "writeFile"}
FaultSets == {fs \in SUBSET RemoteOps : Cardinality(fs) <= MaxFaults}

\* the requests and outcomes the store specification draws from
StoreInputs ==
    [jobIds |-> {Undef, Str(JOne), Str(J_1)},
     titles |-> {Str(<<"a">>), Str(<<"a", " ", "j">>)},
     conversations |-> {Undef, Arr(<<>>), OneTurn},
     flags |-> {Bool(FALSE)},
     tts |-> {TtsPlain, TtsDataUrl, TtsFailure},
     fsFaults |-> FsFaults,
     faultSets |-> {{}}]

\* the requests and outcomes the remote-mirror specification draws from
MirrorInputs ==
    [jobIds |-> {Undef, Str(J_1)},
     titles |-> {Undef, Str(<<"a">>)},
     conversations |-> {Undef, Obj, Arr(<<>>), OneTurn},
     flags |-> {Undef, Bool(FALSE), Bool(TRUE)},
     tts |-> {TtsPlain, TtsFailure},
     fsFaults |-> FsFaults,
     faultSets |-> FaultSets]

NoResp == [stage |-> "none"]
NoFiles == [f \in {} |-> <<>>]

\* no approve call in flight, no client page open
NoCalls == [c \in {} |-> [pc |-> "done"]]
NoUi == [page |-> "none"]

InitRest ==
    /\ clock = 0
    /\ issued = <<>>
    /\ fnCall = [fn |-> "none"]
    /\ calls = NoCalls
    /\ ui = NoUi

NoBucket == [exists |-> FALSE, policy |-> "none"]

\* a process with the remote store configured, before any call; the archive
\* directory is created by the first approve and may or may not be there yet
InitStore ==
    /\ env = [NoEnv EXCEPT !.MINIO_ACCESS_KEY = Str(<<"k">>),
                           !.MINIO_SECRET_KEY = Str(<<"s">>)]
    /\ dirExists \in BOOLEAN
    /\ files = NoFiles
    /\ bucket = NoBucket
    /\ resp = NoResp
    /\ approved = NoFiles
    /\ owner = NoFiles
    /\ InitRest

\* the same with any credentials configuration and any state of the bucket
InitMirror ==
    /\ env \in StoreEnvs
    /\ dirExists \in BOOLEAN
    /\ files = NoFiles
    /\ bucket \in {NoBucket,
                   [exists |-> TRUE, policy |-> "private"],
                   [exists |-> TRUE, policy |-> "public"]}
    /\ resp = NoResp
    /\ approved = NoFiles
    /\ owner = NoFiles
    /\ InitRest

\* one call of approve, its request and the outcomes of what it calls drawn
\* from in; the response is kept with what the environment had ready for it
\* (given): the synthesis outcome and the filesystem call that throws
ApproveCall(in) ==
    \E jobId \in in.jobIds, conversation \in in.conversations,
       title \in in.titles, uploadToMinIO \in in.flags :
        LET req == [jobId |-> jobId, conversation |-> conversation,
                    title |-> title, uploadToMinIO |-> uploadToMinIO]
            valid == ~InvalidConversation(conversation) /\ Truthy(jobId)
        IN  \E tts \in (IF valid THEN in.tts ELSE {TtsFailure}) :
            \E fsFault \in (IF valid /\ tts.ok
                            THEN {f \in in.fsFaults : f = "mkdir" => ~dirExists}
                            ELSE {"none"}) :
            \E faults \in (IF valid /\ tts.ok /\ UploadRequested(uploadToMinIO)
                           THEN in.faultSets ELSE {{}}) :
                \E out \in {ApprovePOST(req, tts, fsFault, faults)} :
                    /\ dirExists' = out.dirExists
                    /\ files' = out.files
                    /\ bucket' = out.bucket
                    /\ resp' = [given |-> [ttsOk |-> tts.ok, fsFault |-> fsFault]]
                                    @@ out.resp
                    /\ approved' = IF out.resp.status = 200
                                   THEN (jobId.s :> out.resp.written) @@ approved
                                   ELSE approved
                    /\ owner' = IF out.resp.status = 200
                                THEN (out.resp.body.filename :> jobId.s) @@ owner
                                ELSE owner
                    /\ UNCHANGED <<env, clock, issued, fnCall, calls, ui>>

Approve == ApproveCall(StoreInputs)

ApproveMirror == ApproveCall(MirrorInputs)

Download ==
    \E jobId \in DownloadJobIds :
        LET req == [jobId |-> jobId]
            ms == IF Truthy(jobId) THEN MatchingFiles(jobId.s) ELSE {}
        IN  \E matchingFile \in (IF ms = {} THEN {<<>>} ELSE ms) :
                /\ resp' = DownloadGET(req, matchingFile)
                /\ UNCHANGED <<env, dirExists, files, bucket, clock, issued,
                               approved, owner, fnCall, calls, ui>>

NextStore == Approve \/ Download

SpecStore == InitStore /\ [][NextStore]_vars

NextMirror == ApproveMirror \/ Download

SpecMirror == InitMirror /\ [][NextMirror]_vars

(***************************************************************************)
(* Claims about the local archive (SpecStore)                              *)
(***************************************************************************)
DownloadOf(r) == r.stage = "download" /\ Truthy(r.req.jobId)

\* C1 as stated: after any successful approve calls, download(J) of an
\* approved job id J answers the bytes the latest approve wrote for J, with
\* Content-Length equal to their length.
C1_RoundTripAnyIds ==
    (DownloadOf(resp) /\ resp.req.jobId.s \in DOMAIN approved)
        => /\ resp.status = 200
           /\ resp.body = approved[resp.req.jobId.s]
           /\ resp.headers.ContentLength = Len(approved[resp.req.jobId.s])

\* C1 amended: the round trip holds for an approved job id J when exactly
\* one file of the archive has J in its name and the approve that last wrote
\* that file was one for J.
C1_RoundTripSingleMatch ==
    (/\ DownloadOf(resp)
     /\ resp.req.jobId.s \in DOMAIN approved
     /\ \E f \in DOMAIN files :
            /\ {g \in DOMAIN files : Includes(g, resp.req.jobId.s)} = {f}
            /\ owner[f] = resp.req.jobId.s)
        => /\ resp.status = 200
           /\ resp.body = approved[resp.req.jobId.s]
           /\ resp.headers.ContentLength = Len(approved[resp.req.jobId.s])

\* C1 witness: j_1 is downloaded, byte for byte from a data-URL answer of the
\* synthesis, while the archive also holds a file of job 1.
C1_Witness ==
    /\ DownloadOf(resp)
    /\ resp.req.jobId.s = J_1
    /\ J_1 \in DOMAIN approved
    /\ \E f \in DOMAIN files :
            /\ {g \in DOMAIN files : Includes(g, J_1)} = {f}
            /\ owner[f] = J_1
    /\ Cardinality(DOMAIN files) >= 2
    /\ resp.status = 200
    /\ resp.body = <<66, 67>>
    /\ resp.headers.ContentLength = 2

\* C24 as stated: artifacts are create-only: once a file is in the archive
\* directory, no later approve call (for the same or another job id, under the
\* same or another title) changes its bytes or removes it.
C24_ArtifactsCreateOnly ==
    [][\A f \in DOMAIN files : f \in DOMAIN files' /\ files'[f] = files[f]]_vars

\* C2 as stated: in every reachable state, download(J) for a job id with no
\* matching local .mp3 file answers 404 "File not found for this job ID".
C2_NoMatchIs404 ==
    (/\ DownloadOf(resp)
     /\ ~\E f \in DOMAIN files : Includes(f, resp.req.jobId.s) /\ EndsWith(f, MP3))
        => /\ resp.status = 404
           /\ resp.body = [error |-> "File not found for this job ID"]


(***************************************************************************)
(* Claims about the remote mirror (SpecMirror)                             *)
(***************************************************************************)
Range(q) == {q[i] : i \in DOMAIN q}

\* the calls of the last handler that threw
Raised(r) == r.faults \cap Range(r.ops)

\* the last call was an approve that uploaded and got a URL back
Uploaded(r) == r.stage = "approve" /\ r.status = 200 /\ r.body.minioUrl # NoUrl

PolicyReadFailed(r) == Raised(r) \cap {"getBucketPolicy", "parsePolicy"} # {}

IsSevenDaySigned(u) == u.kind = "presigned" /\ u.expiry = 7 * 24 * 60 * 60

\* C3 as stated: after a successful upload the URL is direct only when the
\* re-read policy shows the bucket public; when the bucket is private or the
\* policy read or its parsing fails, it is a presigned URL valid 604800 s.
C3_SignedUnlessPublic ==
    Uploaded(resp) =>
        /\ resp.body.minioUrl.kind = "direct"
              => (bucket.policy = "public" /\ ~PolicyReadFailed(resp))
        /\ (bucket.policy # "public" \/ PolicyReadFailed(resp))
              => IsSevenDaySigned(resp.body.minioUrl)

\* C4 as stated: with valid input and uploadToMinIO=true, if client creation,
\* bucketExists, makeBucket, putObject or presign raises, approve still answers
\* success:true with minioUrl null and the local download URL, and the local
\* artifact has been written.
C4_RemoteErrorKeepsLocal ==
    (/\ resp.stage = "approve"
     /\ resp.req.uploadToMinIO = Bool(TRUE)
     /\ Raised(resp) \cap {"import", "newClient", "bucketExists", "makeBucket",
                           "putObject", "presignedGetObject"} # {})
        => /\ resp.status = 200
           /\ resp.body.success
           /\ resp.body.minioUrl = NoUrl
           /\ resp.body.downloadUrl.kind = "local"
           /\ resp.body.downloadUrl.jobId = resp.req.jobId.s
           /\ resp.body.filename \in DOMAIN files
           /\ files[resp.body.filename] = resp.written

\* C5: an approve call with uploadToMinIO false or absent makes no call of the
\* remote store, and its success response has minioUrl null and downloadUrl
\* <app URL>/api/webhook/download/<jobId>.
C5_NoUploadUnlessRequested ==
    (/\ resp.stage = "approve"
     /\ resp.req.uploadToMinIO \in {Undef, Bool(FALSE)})
        => /\ Range(resp.ops) \cap RemoteOps = {}
           /\ resp.status = 200 =>
                /\ resp.body.minioUrl = NoUrl
                /\ resp.body.downloadUrl =
                       [kind |-> "local",
                        base |-> IF env.NEXT_PUBLIC_APP_URL = Undef
                                 THEN DefaultAppUrl ELSE env.NEXT_PUBLIC_APP_URL.s,
                        path |-> DownloadPath,
                        jobId |-> resp.req.jobId.s]

\* C5 witness: a successful approve without the flag, answered from the archive
\* of a process with its own app URL
C5_Witness ==
    /\ resp.stage = "approve"
    /\ resp.req.uploadToMinIO = Undef
    /\ resp.status = 200
    /\ resp.body.filename \in DOMAIN files
    /\ resp.body.downloadUrl.kind = "local"
    /\ env.NEXT_PUBLIC_APP_URL # Undef


(***************************************************************************)
(* receive: POST /api/webhook/transcript                                   *)
(***************************************************************************)
EN == <<"e", "n">>

\* const validLanguages = ['en', 'pl', 'es', 'fr', 'de', 'it', 'pt', 'ru', 'ja', 'ko', 'zh']
validLanguages ==
    <<EN, <<"p", "l">>, <<"e", "s">>, <<"f", "r">>, <<"d", "e">>, <<"i", "t">>,
      <<"p", "t">>, <<"r", "u">>, <<"j", "a">>, <<"k", "o">>, <<"z", "h">>>>

\* Array.prototype.includes on an array of strings: strict equality
ArrIncludes(arr, v) == v.t = "string" /\ \E i \in DOMAIN arr : arr[i] = v.s

\* a receive that ignores the requested language
SelectedLanguageAlwaysDefault(language) == EN

\* language && validLanguages.includes(language) ? language : 'en'
SelectedLanguageReceive(language) ==
    IF Truthy(language) /\ ArrIncludes(validLanguages, language) THEN language.s ELSE EN

Base36Seq == DigitSeq \o LowerSeq

\* Number.prototype.toString(36) of a number in [0, 1) given by the values of
\* its base-36 fraction digits (no trailing zero): "0" for zero, else "0.<digits>"
ToString36(frac) ==
    IF frac = <<>> THEN <<"0">>
    ELSE <<"0", ".">> \o [i \in 1..Len(frac) |-> Base36Seq[frac[i] + 1]]

JOB == <<"j", "o", "b">>

\* a job id made of the random part alone
MintJobIdNoClock(ms, rnd) ==
    JOB \o <<"_">> \o <<"0">> \o <<"_">> \o SubstringFrom(ToString36(rnd), 7)

\* `job_${Date.now()}_${Math.random().toString(36).substring(7)}`
MintJobId(ms, rnd) ==
    JOB \o <<"_">> \o ToDigits(ms) \o <<"_">> \o SubstringFrom(ToString36(rnd), 7)

UntitledPodcast == <<"U", "n", "t", "i", "t", "l", "e", "d", " ", "P", "o", "d", "c", "a", "s", "t">>
ProcessPath == <<"/", "a", "p", "i", "/", "w", "e", "b", "h", "o", "o", "k", "/", "p", "r", "o", "c", "e", "s", "s">>

\* the handler of transcript/route.ts, at time ms with Math.random() = rnd
ReceivePOST(req, ms, rnd) ==
    IF ~Truthy(req.transcript)
    THEN [stage |-> "receive", req |-> req, status |-> 400,
          body |-> [error |-> "Transcript is required"]]
    ELSE [stage |-> "receive", req |-> req, status |-> 200,
          body |-> [success |-> TRUE,
                    jobId |-> MintJobId(ms, rnd),
                    message |-> "Transcript received successfully",
                    language |-> SelectedLanguageReceive(req.language),
                    nextStep |->
                        [url |-> OrDefault(env.NEXT_PUBLIC_APP_URL, DefaultAppUrl) \o ProcessPath,
                         method |-> "POST",
                         body |-> [jobId |-> MintJobId(ms, rnd),
                                   transcript |-> req.transcript,
                                   title |-> IF Truthy(req.title) THEN req.title
                                             ELSE Str(UntitledPodcast),
                                   language |-> SelectedLanguageReceive(req.language),
                                   metadata |-> IF Truthy(req.metadata) THEN req.metadata
                                                ELSE ObjWith({})]]]]

(***************************************************************************)
(* The receive specification: the clock advances, receive is called        *)
(***************************************************************************)
ClockStart == 98
MaxClock == 101
MaxReceives == 2

HelloWorld == Str(<<"H", "e", "l", "l", "o", " ", "w", "o", "r", "l", "d">>)

\* values of Math.random(), as base-36 fraction digits: 0, 0.5, a number of
\* five digits, and numbers of six and seven digits (two of them alike past
\* the fifth digit)
Randoms ==
    {<<>>, <<18>>, <<1, 2, 3, 4, 5>>, <<1, 2, 3, 4, 5, 33>>,
     <<35, 35, 35, 35, 35, 33>>, <<1, 2, 3, 4, 5, 7, 20>>}

RequestedLanguages ==
    {Undef, JNull, Str(<<>>), Str(<<"x", "x">>), Str(<<"E", "N">>)}
        \cup {Str(validLanguages[i]) : i \in DOMAIN validLanguages}

ReceiveRequests ==
    {[transcript |-> HelloWorld, title |-> Undef, language |-> l, metadata |-> Undef]
        : l \in RequestedLanguages}
    \cup {[transcript |-> t, title |-> Str(<<"T">>), language |-> Str(<<"p", "l">>),
           metadata |-> ObjWith({"source"})] : t \in {Undef, Str(<<>>), HelloWorld}}
    \cup {[transcript |-> HelloWorld, title |-> Str(<<>>), language |-> Str(<<"p", "l">>),
           metadata |-> JNull]}

InitReceive ==
    /\ env = NoEnv
    /\ dirExists = FALSE
    /\ files = NoFiles
    /\ bucket = NoBucket
    /\ resp = NoResp
    /\ approved = NoFiles
    /\ owner = NoFiles
    /\ clock = ClockStart
    /\ issued = <<>>
    /\ fnCall = [fn |-> "none"]
    /\ calls = NoCalls
    /\ ui = NoUi

\* a millisecond passes
Tick ==
    /\ clock < MaxClock
    /\ clock' = clock + 1
    /\ UNCHANGED <<env, dirExists, files, bucket, resp, issued, approved, owner, fnCall,
                   calls, ui>>

\* one call of receive, its request drawn from reqs and Math.random() from rnds
ReceiveCall(reqs, rnds) ==
    /\ Len(issued) < MaxReceives
    /\ \E req \in reqs, rnd \in rnds :
          \E out \in {ReceivePOST(req, clock, rnd)} :
              /\ resp' = out
              /\ issued' = IF out.status = 200
                           THEN Append(issued, [id |-> out.body.jobId, ms |-> clock, rnd |-> rnd])
                           ELSE issued
    /\ UNCHANGED <<env, dirExists, files, bucket, clock, approved, owner, fnCall,
                   calls, ui>>

Receive == ReceiveCall(ReceiveRequests, Randoms)

NextReceive == Tick \/ Receive

SpecReceive == InitReceive /\ [][NextReceive]_vars

(***************************************************************************)
(* Claims about receive (SpecReceive)                                      *)
(***************************************************************************)
Alnum36 == Digits \cup LowerLetters

\* id reads job_<digits>_<alnum>, the digits not empty, the last part of at
\* least minTail characters
HasJobIdShape(id, minTail) ==
    /\ Len(id) >= 6
    /\ SubSeq(id, 1, 4) = <<"j", "o", "b", "_">>
    /\ \E k \in 6..Len(id) :
          /\ id[k] = "_"
          /\ \A i \in 5..(k - 1) : id[i] \in Digits
          /\ \A i \in (k + 1)..Len(id) : id[i] \in Alnum36
          /\ Len(id) - k >= minTail

\* the part of Math.random()'s rendering that reaches the job id
RandomTail(rnd) ==
    IF Len(rnd) <= 5 THEN <<>>
    ELSE [i \in 1..(Len(rnd) - 5) |-> Base36Seq[rnd[i + 5] + 1]]

SupportedTags ==
    {<<"e", "n">>, <<"p", "l">>, <<"e", "s">>, <<"f", "r">>, <<"d", "e">>, <<"i", "t">>,
     <<"p", "t">>, <<"r", "u">>, <<"j", "a">>, <<"k", "o">>, <<"z", "h">>}

\* C7: a receive call with a non-empty transcript and a supported language L
\* answers a nextStep.body with the jobId of the top-level response, the
\* transcript unchanged and language L; title is 'Untitled Podcast' and
\* metadata {} when absent, and the given values otherwise.
C7_NextStepEchoesRequest ==
    (/\ resp.stage = "receive"
     /\ resp.req.transcript.t = "string" /\ resp.req.transcript.s # <<>>
     /\ resp.req.language.t = "string" /\ resp.req.language.s \in SupportedTags)
        => /\ resp.status = 200
           /\ resp.body.nextStep.body.jobId = resp.body.jobId
           /\ resp.body.nextStep.body.transcript = resp.req.transcript
           /\ resp.body.nextStep.body.language = resp.req.language.s
           /\ resp.body.language = resp.req.language.s
           /\ resp.body.nextStep.body.title =
                  (IF resp.req.title = Undef
                   THEN Str(<<"U", "n", "t", "i", "t", "l", "e", "d", " ",
                              "P", "o", "d", "c", "a", "s", "t">>)
                   ELSE IF resp.req.title.s # <<>> THEN resp.req.title
                   ELSE resp.body.nextStep.body.title)
           /\ resp.body.nextStep.body.metadata =
                  (IF resp.req.metadata = Undef THEN [t |-> "object", keys |-> {}]
                   ELSE IF resp.req.metadata.t = "object" THEN resp.req.metadata
                   ELSE resp.body.nextStep.body.metadata)

\* C7 witness: receive of {transcript: 'Hello world', language: 'ko'}
C7_Witness ==
    /\ resp.stage = "receive"
    /\ resp.req.language = Str(<<"k", "o">>)
    /\ resp.req.title = Undef /\ resp.req.metadata = Undef
    /\ resp.status = 200
    /\ resp.body.nextStep.body.language = <<"k", "o">>
    /\ resp.body.nextStep.body.jobId = issued[Len(issued)].id


(***************************************************************************)
(* Language resolution in process and generate-podcast                     *)
(***************************************************************************)
\* process/route.ts: const validLanguages = [...]
validLanguagesProcess ==
    <<EN, <<"p", "l">>, <<"e", "s">>, <<"f", "r">>, <<"d", "e">>, <<"i", "t">>,
      <<"p", "t">>, <<"r", "u">>, <<"j", "a">>, <<"k", "o">>, <<"z", "h">>>>

\* { language = 'en' } = body: the default replaces undefined only
DestructureDefault(v, d) == IF v = Undef THEN d ELSE v

\* a process that takes any string as the language
SelectedLanguageUnchecked(language) ==
    IF DestructureDefault(language, Str(EN)).t = "string"
    THEN DestructureDefault(language, Str(EN)).s ELSE EN

\* validLanguages.includes(language) ? language : 'en', after language = 'en'
SelectedLanguageProcess(language) ==
    IF ArrIncludes(validLanguagesProcess, DestructureDefault(language, Str(EN)))
    THEN DestructureDefault(language, Str(EN)).s
    ELSE EN

\* process/route.ts: const languageNames = { en: 'English', ... }
languageNames ==
    [t \in {validLanguagesProcess[i] : i \in DOMAIN validLanguagesProcess} |->
        CASE t = EN -> "English"
          [] t = <<"p", "l">> -> "Polish"
          [] t = <<"e", "s">> -> "Spanish"
          [] t = <<"f", "r">> -> "French"
          [] t = <<"d", "e">> -> "German"
          [] t = <<"i", "t">> -> "Italian"
          [] t = <<"p", "t">> -> "Portuguese"
          [] t = <<"r", "u">> -> "Russian"
          [] t = <<"j", "a">> -> "Japanese"
          [] t = <<"k", "o">> -> "Korean"
          [] t = <<"z", "h">> -> "Chinese"]

\* languageNames[selectedLanguage] || 'English'
LanguageNameProcess(selectedLanguage) ==
    IF selectedLanguage \in DOMAIN languageNames
    THEN languageNames[selectedLanguage] ELSE "English"

\* language === 'en' (strict equality with a string literal)
StrictEq(v, lit) == v.t = "string" /\ v.s = lit

\* generate-podcast/route.ts: the chain language === 'en' ? 'English' : ... : 'English'
\* applied to language after its default 'en'
LanguageNameGenerate(language) ==
    LET l == DestructureDefault(language, Str(EN))
    IN  CASE StrictEq(l, EN) -> "English"
          [] StrictEq(l, <<"p", "l">>) -> "Polish"
          [] StrictEq(l, <<"e", "s">>) -> "Spanish"
          [] StrictEq(l, <<"f", "r">>) -> "French"
          [] StrictEq(l, <<"d", "e">>) -> "German"
          [] StrictEq(l, <<"i", "t">>) -> "Italian"
          [] StrictEq(l, <<"p", "t">>) -> "Portuguese"
          [] StrictEq(l, <<"r", "u">>) -> "Russian"
          [] StrictEq(l, <<"j", "a">>) -> "Japanese"
          [] StrictEq(l, <<"k", "o">>) -> "Korean"
          [] StrictEq(l, <<"z", "h">>) -> "Chinese"
          [] OTHER -> "English"

(***************************************************************************)
(* The derivations specification: a process with some storage settings     *)
(* resolves a language, derives a filename, resolves its storage target    *)
(***************************************************************************)
\* the parts an endpoint setting is written from; scheme <<>> is a bare host
EndpointParts ==
    [scheme : {<<>>, HTTP, HTTPS, <<"H", "T", "T", "P", "S">>, <<"f", "t", "p">>},
     host : {<<"h">>, <<"M", ".", "x">>},
     port : {<<>>, <<"8", "0">>, PORT443, <<"2", "1">>, <<"9", "4", "4", "3">>,
             <<"9", "9", "9", "9", "9">>}]

RenderEndpoint(p) ==
    (IF p.scheme = <<>> THEN <<>> ELSE p.scheme \o SchemeSep)
        \o p.host
        \o (IF p.port = <<>> THEN <<>> ELSE <<":">> \o p.port)

\* an endpoint setting left unset reads as the default host
UnsetEndpointParts == [scheme |-> <<>>, host |-> DefaultEndpoint, port |-> <<>>]

TargetEnvOf(p, mp, ssl) ==
    [NoEnv EXCEPT !.MINIO_ENDPOINT = Str(RenderEndpoint(p)),
                  !.MINIO_PORT = mp,
                  !.MINIO_USE_SSL = ssl]

FALSESTR == <<"f", "a", "l", "s", "e">>

\* settings with a scheme under two ports and two TLS flags; bare hosts, and
\* the unset endpoint, under every port and TLS flag
TargetEnvs ==
    {TargetEnvOf(p, mp, ssl) :
        p \in {q \in EndpointParts : q.scheme # <<>>},
        mp \in {Undef, Str(<<"9", "0", "0", "0">>)},
        ssl \in {Str(TRUESTR), Str(FALSESTR)}}
    \cup
    {TargetEnvOf(p, mp, ssl) :
        p \in {q \in EndpointParts : q.scheme = <<>> /\ q.port \in {<<>>, <<"8", "0">>}},
        mp \in {Undef, Str(<<"9", "0", "0", "0">>), Str(PORT443)},
        ssl \in {Undef, Str(TRUESTR), Str(FALSESTR), Str(<<"T", "R", "U", "E">>)}}
    \cup
    {[NoEnv EXCEPT !.MINIO_PORT = mp, !.MINIO_USE_SSL = ssl] :
        mp \in {Undef, Str(<<"9", "0", "0", "0">>)},
        ssl \in {Undef, Str(FALSESTR)}}

LanguageInputs ==
    RequestedLanguages \cup {Bool(TRUE), Str(<<"e", "n", "g">>)}

\* a title of n characters with a space at every seventh
LongTitle(n) == [i \in 1..n |-> IF i % 7 = 0 THEN " " ELSE "x"]

TitleInputs ==
    {Undef, JNull, Str(<<>>), Str(<<"M", "y", " ", "S", "h", "o", "w", "!">>),
     Str(<<"a", "_", "B", "9">>), Str(<<"/", ".", ".">>)}
        \cup {Str(LongTitle(n)) : n \in 49..52}

InitFn ==
    /\ env \in TargetEnvs
    /\ dirExists = FALSE
    /\ files = NoFiles
    /\ bucket = NoBucket
    /\ resp = NoResp
    /\ approved = NoFiles
    /\ owner = NoFiles
    /\ InitRest

FnRest ==
    UNCHANGED <<env, dirExists, files, bucket, resp, clock, issued, approved, owner,
                calls, ui>>

ResolveLanguage ==
    /\ \E language \in LanguageInputs :
          \/ fnCall' = [fn |-> "language", stage |-> "receive", language |-> language,
                        selected |-> SelectedLanguageReceive(language)]
          \/ fnCall' = [fn |-> "language", stage |-> "process", language |-> language,
                        selected |-> SelectedLanguageProcess(language),
                        name |-> LanguageNameProcess(SelectedLanguageProcess(language))]
          \/ fnCall' = [fn |-> "language", stage |-> "generate", language |-> language,
                        name |-> LanguageNameGenerate(language)]
    /\ FnRest

DeriveFilename ==
    /\ \E title \in TitleInputs, jobId \in {J_1, MintJobId(ClockStart, <<1, 2, 3, 4, 5, 33>>)} :
          fnCall' = [fn |-> "filename", title |-> title, jobId |-> jobId,
                     localSlug |-> SafeTitleLocal(title),
                     local |-> LocalFilename(title, jobId),
                     remoteSlug |-> Sanitize(TitleOrDefault(title)),
                     remote |-> RemoteKey(title, jobId)]
    /\ FnRest

ResolveStorageTarget ==
    /\ \E p \in EndpointParts \cup {UnsetEndpointParts} :
          /\ OrDefault(env.MINIO_ENDPOINT, DefaultEndpoint) = RenderEndpoint(p)
          /\ (env.MINIO_ENDPOINT = Undef) = (p = UnsetEndpointParts)
          /\ \/ fnCall' = [fn |-> "target", route |-> "approve", parts |-> p,
                           target |-> ResolveTargetApprove(env)]
             \/ fnCall' = [fn |-> "target", route |-> "test-minio", parts |-> p,
                           target |-> ResolveTargetTestMinio(env)]
    /\ FnRest

NextFn == ResolveLanguage \/ DeriveFilename \/ ResolveStorageTarget

SpecFn == InitFn /\ [][NextFn]_vars

(***************************************************************************)
(* Claims about the derivations (SpecFn)                                   *)
(***************************************************************************)
NameOfTag(t) ==
    CASE t = <<"e", "n">> -> "English"
      [] t = <<"p", "l">> -> "Polish"
      [] t = <<"e", "s">> -> "Spanish"
      [] t = <<"f", "r">> -> "French"
      [] t = <<"d", "e">> -> "German"
      [] t = <<"i", "t">> -> "Italian"
      [] t = <<"p", "t">> -> "Portuguese"
      [] t = <<"r", "u">> -> "Russian"
      [] t = <<"j", "a">> -> "Japanese"
      [] t = <<"k", "o">> -> "Korean"
      [] t = <<"z", "h">> -> "Chinese"

\* the tag the claim expects for a requested language
ExpectedTag(language) ==
    IF language.t = "string" /\ language.s \in SupportedTags
    THEN language.s ELSE <<"e", "n">>

\* C8: in receive, process and generate-podcast a language that is missing,
\* null or not one of the eleven supported codes resolves to 'en' (English),
\* and a supported code resolves to itself (generate-podcast resolves to the
\* language's name in its prompt).
C8_LanguageResolvesToSelfOrDefault ==
    fnCall.fn = "language" =>
        IF fnCall.stage = "generate"
        THEN fnCall.name = NameOfTag(ExpectedTag(fnCall.language))
        ELSE /\ fnCall.selected = ExpectedTag(fnCall.language)
             /\ fnCall.stage = "process"
                    => fnCall.name = NameOfTag(ExpectedTag(fnCall.language))

\* C8 witness: process resolved the unsupported tag 'EN' to 'en'
C8_Witness ==
    /\ fnCall.fn = "language"
    /\ fnCall.stage = "process"
    /\ fnCall.language = Str(<<"E", "N">>)
    /\ fnCall.selected = <<"e", "n">>

SlugChars == Digits \cup LowerLetters \cup UpperLetters \cup {"_"}

IsSlug(s) == Len(s) <= 50 /\ \A i \in 1..Len(s) : s[i] \in SlugChars

\* C9 as stated: for every title the slug has only [A-Za-z0-9_] characters and
\* at most 50 of them, sanitizing the slug again returns it unchanged, the
\* filename is <slug>_<jobId>.mp3 with the job id verbatim, and the local
\* filename equals the remote object key for the same (title, jobId).
C9_FilenameDerivation ==
    fnCall.fn = "filename" =>
        /\ IsSlug(fnCall.localSlug) /\ IsSlug(fnCall.remoteSlug)
        /\ Sanitize(fnCall.localSlug) = fnCall.localSlug
        /\ Sanitize(fnCall.remoteSlug) = fnCall.remoteSlug
        /\ fnCall.local = fnCall.localSlug \o <<"_">> \o fnCall.jobId \o <<".", "m", "p", "3">>
        /\ fnCall.remote = fnCall.remoteSlug \o <<"_">> \o fnCall.jobId \o <<".", "m", "p", "3">>
        /\ fnCall.local = fnCall.remote

LowerScheme(p) == ToLower(p.scheme)

\* the port of the URL the parts spell: none when absent or the scheme's own
UrlPortOf(p) ==
    IF \/ p.port = <<>>
       \/ (LowerScheme(p) = <<"h", "t", "t", "p">> /\ p.port = <<"8", "0">>)
       \/ (LowerScheme(p) = <<"h", "t", "t", "p", "s">> /\ p.port = <<"4", "4", "3">>)
       \/ (LowerScheme(p) = <<"f", "t", "p">> /\ p.port = <<"2", "1">>)
    THEN <<>> ELSE p.port

\* C10: when the endpoint setting has a scheme and parses as a URL, the
\* resolved hostname is the URL's host, the port is the URL's port (443 for
\* https and 80 for http when it has none) and TLS is on exactly when the
\* scheme is https, whatever MINIO_PORT and MINIO_USE_SSL say; in approve and
\* in test-minio alike.
C10_SchemeEndpointOverrides ==
    (/\ fnCall.fn = "target"
     /\ fnCall.parts.scheme # <<>>
     /\ DigitsValue(fnCall.parts.port) <= 65535)
        => /\ fnCall.target.endPoint = ToLower(fnCall.parts.host)
           /\ fnCall.target.useSSL = (LowerScheme(fnCall.parts) = <<"h", "t", "t", "p", "s">>)
           /\ UrlPortOf(fnCall.parts) # <<>>
                  => fnCall.target.port = DigitsValue(UrlPortOf(fnCall.parts))
           /\ (UrlPortOf(fnCall.parts) = <<>>
               /\ LowerScheme(fnCall.parts) = <<"h", "t", "t", "p", "s">>)
                  => fnCall.target.port = 443
           /\ (UrlPortOf(fnCall.parts) = <<>>
               /\ LowerScheme(fnCall.parts) = <<"h", "t", "t", "p">>)
                  => fnCall.target.port = 80

\* C10 witness: 'https://M.x:9443' resolved in approve under MINIO_PORT=9000
\* and MINIO_USE_SSL=false
C10_Witness ==
    /\ fnCall.fn = "target"
    /\ fnCall.route = "approve"
    /\ fnCall.parts = [scheme |-> <<"h", "t", "t", "p", "s">>, host |-> <<"M", ".", "x">>,
                       port |-> <<"9", "4", "4", "3">>]
    /\ env.MINIO_PORT = Str(<<"9", "0", "0", "0">>)
    /\ env.MINIO_USE_SSL = Str(<<"f", "a", "l", "s", "e">>)
    /\ fnCall.target = [endPoint |-> <<"m", ".", "x">>, port |-> 9443, useSSL |-> TRUE]


\* the port the separate setting configures: 443 unless MINIO_PORT is set
ConfiguredPort ==
    IF env.MINIO_PORT = Undef THEN 443 ELSE DigitsValue(env.MINIO_PORT.s)

\* C11: when the endpoint setting has no '://', the resolved hostname is the
\* endpoint string (the default host when unset), the port is the configured
\* port (443 by default) and TLS is on exactly when MINIO_USE_SSL is 'true' or
\* the port is 443.
C11_BareEndpointUsesSeparateSettings ==
    (fnCall.fn = "target" /\ fnCall.parts.scheme = <<>>)
        => /\ fnCall.target.endPoint =
                  fnCall.parts.host
                      \o (IF fnCall.parts.port = <<>> THEN <<>>
                          ELSE <<":">> \o fnCall.parts.port)
           /\ fnCall.target.port = ConfiguredPort
           /\ fnCall.target.useSSL
                  = (env.MINIO_USE_SSL = [t |-> "string", s |-> <<"t", "r", "u", "e">>]
                     \/ ConfiguredPort = 443)

\* C11 witness: the bare host 'h' under MINIO_PORT=443 and MINIO_USE_SSL=false
\* resolved in approve with TLS on
C11_Witness ==
    /\ fnCall.fn = "target"
    /\ fnCall.route = "approve"
    /\ env.MINIO_ENDPOINT = Str(<<"h">>)
    /\ env.MINIO_PORT = Str(<<"4", "4", "3">>)
    /\ env.MINIO_USE_SSL = Str(<<"f", "a", "l", "s", "e">>)
    /\ fnCall.target = [endPoint |-> <<"h">>, port |-> 443, useSSL |-> TRUE]


(***************************************************************************)
(* Claims about approve's persistence and validation (SpecMirror)          *)
(***************************************************************************)
\* the request passes approve's validation
ValidApprove(req) ==
    /\ req.conversation.t = "array" /\ Len(req.conversation.a) > 0
    /\ req.jobId.t = "string" /\ req.jobId.s # <<>>

\* the local artifact named by the response is in the archive with the bytes written
LocalArtifactWritten(r) ==
    /\ r.body.filename \in DOMAIN files
    /\ files[r.body.filename] = r.written

\* C12: when a storage credential is missing and approve is called with
\* uploadToMinIO=true (valid input, synthesis and local write succeeding), no
\* client is created and no storage-service operation is invoked, the local
\* file is written and approve answers success:true with minioUrl null.
C12_MissingCredentialsSkipRemote ==
    (/\ resp.stage = "approve"
     /\ ValidApprove(resp.req)
     /\ resp.req.uploadToMinIO = Bool(TRUE)
     /\ resp.given.ttsOk /\ resp.given.fsFault = "none"
     /\ (env.MINIO_ACCESS_KEY = Undef \/ env.MINIO_SECRET_KEY = Undef))
        => /\ resp.status = 200
           /\ resp.body.success
           /\ resp.body.minioUrl = NoUrl
           /\ resp.body.downloadUrl.kind = "local"
           /\ Range(resp.ops) \cap {"newClient", "bucketExists", "makeBucket",
                                    "setBucketPolicy", "putObject", "getBucketPolicy",
                                    "presignedGetObject"} = {}
           /\ LocalArtifactWritten(resp)

\* C12 witness: an approve with uploadToMinIO=true on a process without the
\* secret key loaded the client library, stopped there and answered 200
C12_Witness ==
    /\ resp.stage = "approve"
    /\ resp.req.uploadToMinIO = Bool(TRUE)
    /\ env.MINIO_SECRET_KEY = Undef /\ env.MINIO_ACCESS_KEY # Undef
    /\ resp.status = 200
    /\ "import" \in Range(resp.ops)
    /\ resp.body.minioUrl = NoUrl
    /\ LocalArtifactWritten(resp)


\* the positions of call op in the calls r made
Positions(r, op) == {i \in DOMAIN r.ops : r.ops[i] = op}

RemoteCallNames ==
    {"import", "newClient", "bucketExists", "makeBucket", "setBucketPolicy",
     "putObject", "getBucketPolicy", "parsePolicy", "presignedGetObject"}

\* C13: every approve that answers success:true has written the local file
\* named by its filename field, and in every approve call each remote-store
\* call comes after a completed local write of that call.
C13_LocalWriteBeforeRemote ==
    resp.stage = "approve" =>
        /\ resp.status = 200 =>
              /\ resp.body.success
              /\ LocalArtifactWritten(resp)
              /\ Positions(resp, "writeFile") # {}
        /\ \A i \in DOMAIN resp.ops :
              resp.ops[i] \in RemoteCallNames
                  => /\ \E w \in Positions(resp, "writeFile") : w < i
                     /\ resp.given.fsFault # "writeFile"

\* C13 witness: an approve that wrote the file and then stored the object
C13_Witness ==
    /\ resp.stage = "approve"
    /\ resp.status = 200
    /\ LocalArtifactWritten(resp)
    /\ \E w \in Positions(resp, "writeFile"), u \in Positions(resp, "putObject") : w < u
    /\ resp.body.minioUrl # NoUrl


\* C14: when creating the archive directory or writing the local file fails
\* during approve, the answer is HTTP 500 with an error string and no success
\* field, and no remote-store call is made.
C14_LocalFailureIs500 ==
    (/\ resp.stage = "approve"
     /\ ValidApprove(resp.req)
     /\ resp.given.ttsOk
     /\ resp.given.fsFault \in {"mkdir", "writeFile"})
        => /\ resp.status = 500
           /\ DOMAIN resp.body = {"error"}
           /\ resp.body.error = "Failed to generate audio"
           /\ Range(resp.ops) \cap RemoteCallNames = {}

\* C14 witness: an approve with uploadToMinIO=true whose writeFile threw
C14_Witness ==
    /\ resp.stage = "approve"
    /\ resp.req.uploadToMinIO = Bool(TRUE)
    /\ resp.given.fsFault = "writeFile"
    /\ resp.status = 500
    /\ resp.ops[Len(resp.ops)] = "writeFile"


\* C15: an approve call whose conversation is missing, not an array or empty,
\* or whose jobId is missing, is answered 400 with an error and changes
\* nothing: it makes no synthesis call, writes no file, creates no directory
\* and invokes no remote-store operation.
C15_InvalidApproveHasNoEffect ==
    [][(resp'.stage = "approve" /\ ~ValidApprove(resp'.req))
          => /\ resp'.status = 400
             /\ DOMAIN resp'.body = {"error"}
             /\ resp'.ops = <<>>
             /\ UNCHANGED <<dirExists, files, bucket>>]_vars

\* C15 witness: an approve with an empty conversation and uploadToMinIO=true,
\* refused on a process whose archive already holds a file
C15_Witness ==
    /\ resp.stage = "approve"
    /\ resp.req.conversation = Arr(<<>>)
    /\ resp.req.uploadToMinIO = Bool(TRUE)
    /\ resp.req.jobId # Undef
    /\ resp.status = 400
    /\ DOMAIN files # {}


(***************************************************************************)
(* The conversation generator: one run of streamObject (package 'ai')      *)
(***************************************************************************)
MaxTurns == 2

SPEAKER1 == <<"S", "p", "e", "a", "k", "e", "r", "1">>
SPEAKER2 == <<"S", "p", "e", "a", "k", "e", "r", "2">>

\* the i-th turn of a generated dialogue, and the same while its text is
\* still to come
Turn(i) ==
    [speaker |-> Str(IF i % 2 = 1 THEN SPEAKER1 ELSE SPEAKER2),
     text |-> Str(<<"t">> \o ToDigits(i))]
TurnBegun(i) == [speaker |-> Turn(i).speaker, text |-> Undef]

Dialogue(n) == [conversation |-> Arr([i \in 1..n |-> Turn(i)])]

\* the k-th partial object of a generation: {}, { conversation: [] }, then
\* every turn first begun and then whole
PartialObject(k) ==
    IF k = 1 THEN [conversation |-> Undef]
    ELSE IF k % 2 = 0 THEN Dialogue((k - 2) \div 2)
    ELSE [conversation |->
              Arr([i \in 1..((k - 1) \div 2) |->
                      IF i = (k - 1) \div 2 THEN TurnBegun(i) ELSE Turn(i)])]

\* the partial objects a whole generation of n turns emits
PartialCount(n) == 2 * n + 2

\* what the thrown error looks like to the handlers: cause.error.code is
\* 'insufficient_quota' or 'invalid_api_key', or there is a
\* cause.error.message, or only the error's own message (a transport failure)
ErrorKinds == {"insufficient_quota", "invalid_api_key", "cause_message", "message"}

\* a run of the generator: streamObject throws at once (start = "throw"), or
\* it emits its first `emitted` partial objects of a dialogue of n turns and
\* then ends: "ok" with the final object, "invalid" when the stream ends
\* without an object that passes the schema (result.object rejects), "throw"
\* when reading the partial stream throws
Runs ==
    {[start |-> "throw", n |-> 0, emitted |-> 0, end |-> "none", err |-> e] :
        e \in ErrorKinds}
    \cup {[start |-> "ok", n |-> n, emitted |-> PartialCount(n), end |-> "ok",
           err |-> "none"] : n \in 1..MaxTurns}
    \cup UNION {
           {[start |-> "ok", n |-> n, emitted |-> k, end |-> "invalid", err |-> "message"],
            [start |-> "ok", n |-> n, emitted |-> k, end |-> "throw", err |-> e]} :
               <<n, k, e>> \in
                   {t \in (1..MaxTurns) \X (0..PartialCount(MaxTurns)) \X ErrorKinds :
                       t[2] <= PartialCount(t[1])}}

NoRun == [start |-> "none", n |-> 0, emitted |-> 0, end |-> "none", err |-> "none"]

\* a handler that never looks at the keys
NoProviderKeyUnchecked(e) == FALSE

\* !openRouterApiKey && !openaiApiKey
NoProviderKey(e) == ~Truthy(e.OPENROUTER_API_KEY) /\ ~Truthy(e.OPENAI_API_KEY)

ConfigError == "Either OPENROUTER_API_KEY or OPENAI_API_KEY must be configured"

(***************************************************************************)
(* process: POST /api/webhook/process                                      *)
(***************************************************************************)
\* item => ({ speaker: item.speaker || '', text: item.text || '' })
MapItem(item) ==
    [speaker |-> OrDefault(item.speaker, <<>>), text |-> OrDefault(item.text, <<>>)]

\* fullConversation after the loop over the first k partial objects: the
\* conversation of the last chunk that had one
RECURSIVE CollectConversation(_)
CollectConversation(k) ==
    IF k = 0 THEN <<>>
    ELSE IF Truthy(PartialObject(k).conversation) /\ PartialObject(k).conversation.t = "array"
    THEN [i \in DOMAIN PartialObject(k).conversation.a |->
             MapItem(PartialObject(k).conversation.a[i])]
    ELSE CollectConversation(k - 1)

ApprovePath == <<"/", "a", "p", "i", "/", "w", "e", "b", "h", "o", "o", "k", "/", "a", "p", "p", "r", "o", "v", "e">>

ProcessError(req, status, error, ops, run) ==
    [stage |-> "process", req |-> req, status |-> status,
     body |-> [error |-> error], ops |-> ops, run |-> run]

\* the handler of process/route.ts POST when the generator runs as run
ProcessPOST(req, run) ==
    IF ~Truthy(req.transcript) \/ ~Truthy(req.jobId)
    THEN ProcessError(req, 400, "Transcript and jobId are required", <<>>, run)
    ELSE IF NoProviderKey(env)
    THEN ProcessError(req, 500, ConfigError, <<>>, run)
    ELSE IF run.start = "throw"
    THEN ProcessError(req, 500, "Failed to process transcript",
                      <<"createOpenAI", "streamObject">>, run)
    ELSE IF run.end = "throw"
    THEN ProcessError(req, 500, "Failed to process transcript",
                      <<"createOpenAI", "streamObject", "partialObjectStream">>, run)
    ELSE [stage |-> "process", req |-> req, status |-> 200,
          body |-> [success |-> TRUE,
                    jobId |-> req.jobId.s,
                    conversation |-> CollectConversation(run.emitted),
                    title |-> IF Truthy(req.title) THEN req.title.s ELSE UntitledPodcast,
                    language |-> SelectedLanguageProcess(req.language),
                    approvalUrl |-> OrDefault(env.NEXT_PUBLIC_APP_URL, DefaultAppUrl)
                                        \o ApprovePath,
                    message |-> "Conversation generated. Please review and approve."],
          ops |-> <<"createOpenAI", "streamObject", "partialObjectStream">>,
          run |-> run]

(***************************************************************************)
(* generate-podcast: POST /api/generate-podcast, and its response stream   *)
(***************************************************************************)
\* const provider = useOpenRouter ? 'OpenRouter' : 'OpenAI'
Provider(e) == IF Truthy(e.OPENROUTER_API_KEY) THEN "OpenRouter" ELSE "OpenAI"

\* errorMessage, by the shape of the error: the texts that begin with or hold
\* ${provider}, or 'Error: <message>'
ErrorMessageOf(e, err) ==
    IF err = "insufficient_quota"
    THEN [provider |-> Provider(e), text |-> "API quota exceeded. Please check your billing and plan details."]
    ELSE IF err = "invalid_api_key"
    THEN [provider |-> Provider(e), text |-> "Invalid <provider> API key. Please check your API key configuration."]
    ELSE IF err = "cause_message"
    THEN [provider |-> Provider(e), text |-> "API error: <cause.error.message>"]
    ELSE [provider |-> "none", text |-> "Error: <message>"]

ErrorEvent(e, err) == [type |-> "error", error |-> ErrorMessageOf(e, err)]
PartialEvent(k) == [type |-> "partial", data |-> PartialObject(k)]
CompleteEvent(n) == [type |-> "complete", data |-> Dialogue(n)]

GenerateJson(req, status, error) ==
    [stage |-> "generate", req |-> req, status |-> status, kind |-> "json",
     body |-> [error |-> error], ops |-> <<>>, run |-> NoRun,
     events |-> <<>>, closed |-> TRUE]

\* new Response(stream): status 200, a text stream with the events enqueued so far
GenerateStream(req, run, events, closed) ==
    [stage |-> "generate", req |-> req, status |-> 200, kind |-> "stream",
     body |-> [error |-> "none"], ops |-> <<"createOpenAI", "streamObject">>, run |-> run,
     events |-> events, closed |-> closed]

\* the handler of generate-podcast/route.ts up to its return
GeneratePOST(req, run) ==
    IF ~Truthy(req.content)
    THEN GenerateJson(req, 400, "Content is required")
    ELSE IF NoProviderKey(env)
    THEN GenerateJson(req, 500, ConfigError)
    ELSE IF run.start = "throw"
    THEN GenerateStream(req, run, <<ErrorEvent(env, run.err)>>, TRUE)
    ELSE GenerateStream(req, run, <<>>, FALSE)

\* a stream that sends the complete event whatever happened, and the error after it
AfterPartialsCompleteFirst(r) ==
    IF r.run.end = "ok"
    THEN [r EXCEPT !.events = Append(@, CompleteEvent(r.run.n)), !.closed = TRUE]
    ELSE [r EXCEPT !.events = Append(Append(@, CompleteEvent(r.run.n)),
                                     ErrorEvent(env, r.run.err)),
                   !.closed = TRUE]

\* a stream whose failures end it without a word
AfterPartialsSilent(r) ==
    IF r.run.end = "ok"
    THEN [r EXCEPT !.events = Append(@, CompleteEvent(r.run.n)), !.closed = TRUE]
    ELSE [r EXCEPT !.closed = TRUE]

\* start(controller) once the partial stream is drained or has thrown: the
\* complete event and close, or the catch's error event and close
AfterPartials(r) ==
    IF r.run.end = "ok"
    THEN [r EXCEPT !.events = Append(@, CompleteEvent(r.run.n)), !.closed = TRUE]
    ELSE [r EXCEPT !.events = Append(@, ErrorEvent(env, r.run.err)), !.closed = TRUE]

\* the stream of the last generate-podcast response is still open
StreamOpen(r) == r.stage = "generate" /\ r.kind = "stream" /\ ~r.closed

(***************************************************************************)
(* The generation specification: process and generate-podcast are called,  *)
(* and an open response stream is fed one event at a time                  *)
(***************************************************************************)
GenEnvs ==
    {[NoEnv EXCEPT !.OPENROUTER_API_KEY = k1, !.OPENAI_API_KEY = k2] :
        k1 \in {Undef, Str(<<"r">>)}, k2 \in {Undef, Str(<<"o">>)}}

ProcessRequests ==
    [jobId : {Undef, Str(J_1)}, transcript : {Undef, HelloWorld},
     title : {Undef, Str(<<"T">>)}, language : {Undef, Str(<<"p", "l">>)}]

GenerateRequests ==
    [content : {Undef, HelloWorld}, language : {Undef, Str(<<"p", "l">>)}]

InitGen ==
    /\ env \in GenEnvs
    /\ dirExists = FALSE
    /\ files = NoFiles
    /\ bucket = NoBucket
    /\ resp = NoResp
    /\ approved = NoFiles
    /\ owner = NoFiles
    /\ InitRest

GenRest ==
    UNCHANGED <<env, dirExists, files, bucket, clock, issued, approved, owner, fnCall,
                calls, ui>>

\* one call of process; the stream of an earlier generate-podcast call is
\* followed to its end first
ProcessCall(reqs, runs) ==
    /\ ~StreamOpen(resp)
    /\ \E req \in reqs :
          \E run \in (IF Truthy(req.transcript) /\ Truthy(req.jobId) /\ ~NoProviderKey(env)
                      THEN runs ELSE {NoRun}) :
              resp' = ProcessPOST(req, run)
    /\ GenRest

Process == ProcessCall(ProcessRequests, Runs)

GenerateStart ==
    /\ ~StreamOpen(resp)
    /\ \E req \in GenerateRequests :
          \E run \in (IF Truthy(req.content) /\ ~NoProviderKey(env)
                      THEN Runs ELSE {NoRun}) :
              resp' = GeneratePOST(req, run)
    /\ GenRest

\* the next turn of the loop of start(controller), or what follows the loop
StreamStep ==
    /\ StreamOpen(resp)
    /\ resp' = IF Len(resp.events) < resp.run.emitted
               THEN [resp EXCEPT !.events = Append(@, PartialEvent(Len(resp.events) + 1))]
               ELSE AfterPartials(resp)
    /\ GenRest

NextGen == Process \/ GenerateStart \/ StreamStep

SpecGen == InitGen /\ [][NextGen]_vars

\* the event loop runs start(controller) on, and every run of the generator ends
SpecGenLive == SpecGen /\ WF_vars(StreamStep)


(***************************************************************************)
(* Claims about generation (SpecGen, SpecGenLive)                          *)
(***************************************************************************)
IsStream(r) == r.stage = "generate" /\ r.kind = "stream"

Terminal == {"complete", "error"}

\* zero or more partial events, then one terminal event exactly when closed
StreamShape(r) ==
    /\ \A i \in 1..(Len(r.events) - 1) : r.events[i].type = "partial"
    /\ r.closed => (r.events # <<>> /\ r.events[Len(r.events)].type \in Terminal)
    /\ ~r.closed => \A i \in DOMAIN r.events : r.events[i].type = "partial"

\* C17: every response stream of generate-podcast is zero or more 'partial'
\* events followed by exactly one terminal event ('complete' or 'error') with
\* which it is closed; nothing is added to a closed stream, no stream holds
\* both terminal events, and every opened stream is closed in the end.
C17_StreamShapeAndEnd ==
    /\ [](IsStream(resp) => StreamShape(resp))
    /\ [][(IsStream(resp) /\ resp.closed /\ IsStream(resp'))
             => Len(resp'.events) <= Len(resp.events)]_vars
    /\ (StreamOpen(resp) ~> (IsStream(resp) /\ resp.closed))

\* C17 witness: a closed stream of all the partial objects of a two-turn
\* dialogue and then the complete event
C17_Witness ==
    /\ IsStream(resp)
    /\ resp.closed
    /\ Len(resp.events) = 7
    /\ resp.events[6].type = "partial"
    /\ resp.events[7].type = "complete"

\* the generator of the last call failed: at the start, while its partial
\* objects were read, or by ending without a valid final object
ProviderFailed(r) == r.run.start = "throw" \/ r.run.end \in {"throw", "invalid"}

\* C18: when the provider fails in a generate-podcast call that had
\* credentials, the response is still a 200 text stream, no 'complete' event
\* is sent, and the stream is closed by an event of type 'error' that carries
\* a message.
C18_ProviderFailureInsideStream ==
    (resp.stage = "generate" /\ ProviderFailed(resp))
        => /\ resp.status = 200
           /\ resp.kind = "stream"
           /\ \A i \in DOMAIN resp.events : resp.events[i].type # "complete"
           /\ resp.closed
                  => /\ resp.events # <<>>
                     /\ resp.events[Len(resp.events)].type = "error"
                     /\ resp.events[Len(resp.events)].error.text # ""
           /\ Len(resp.events) > resp.run.emitted => resp.closed

\* C18 witness: a stream that sent three partial objects and was then closed
\* by an error event, the partial stream having thrown
C18_Witness ==
    /\ IsStream(resp)
    /\ resp.run.end = "throw"
    /\ resp.run.emitted = 3
    /\ resp.closed
    /\ Len(resp.events) = 4
    /\ resp.events[3].type = "partial"
    /\ resp.events[4].type = "error"

\* the turns of the final object of a run, as plain strings
FinalConversation(run) ==
    [i \in 1..run.n |->
        [speaker |-> (IF i % 2 = 1 THEN <<"S", "p", "e", "a", "k", "e", "r", "1">>
                      ELSE <<"S", "p", "e", "a", "k", "e", "r", "2">>),
         text |-> <<"t">> \o ToDigits(i)]]

\* C19 as stated: the conversation process returns with success:true is the
\* generator's final complete dialogue, never an earlier partial; when the
\* generation ends in an error or never produces the final object, process
\* does not return success:true.
C19_ProcessReturnsFinalDialogue ==
    resp.stage = "process" =>
        /\ resp.status = 200
              => /\ resp.run.end = "ok"
                 /\ resp.body.conversation = FinalConversation(resp.run)
        /\ ProviderFailed(resp) => resp.status # 200

\* the request passes the validation of its stage
ValidGeneration(r) ==
    IF r.stage = "process"
    THEN /\ r.req.transcript.t = "string" /\ r.req.transcript.s # <<>>
         /\ r.req.jobId.t = "string" /\ r.req.jobId.s # <<>>
    ELSE r.req.content.t = "string" /\ r.req.content.s # <<>>

\* C20: with neither provider key configured, process and generate-podcast
\* answer a request that passes validation with HTTP 500 and the
\* configuration error, having created no client, called no provider and
\* opened no stream.
C20_NoKeysIsConfigError ==
    (/\ resp.stage \in {"process", "generate"}
     /\ ValidGeneration(resp)
     /\ env.OPENROUTER_API_KEY = Undef /\ env.OPENAI_API_KEY = Undef)
        => /\ resp.status = 500
           /\ resp.body = [error |-> "Either OPENROUTER_API_KEY or OPENAI_API_KEY must be configured"]
           /\ resp.ops = <<>>
           /\ resp.run.start = "none"
           /\ resp.stage = "generate" => (resp.kind = "json" /\ resp.events = <<>>)

\* C20 witness: generate-podcast with content on a process without keys
C20_Witness ==
    /\ resp.stage = "generate"
    /\ resp.req.content = HelloWorld
    /\ env.OPENROUTER_API_KEY = Undef /\ env.OPENAI_API_KEY = Undef
    /\ resp.status = 500
    /\ resp.kind = "json"

Providers == {"OpenRouter", "OpenAI"}

\* the last response reports an error of the provider to its caller: the 500
\* of process, or the error event that closed a generate-podcast stream
ProviderErrorSurfaced(r) ==
    /\ r.stage \in {"process", "generate"}
    /\ r.run.start = "throw" \/ r.run.end = "throw"
    /\ IF r.stage = "process" THEN r.status = 500 ELSE r.closed

\* the provider the surfaced error text names, "none" when it names neither:
\* the text of process is the fixed 'Failed to process transcript'
NamedProvider(r) ==
    IF r.stage = "process"
    THEN (IF r.body.error = "Failed to process transcript" THEN "none" ELSE "other")
    ELSE r.events[Len(r.events)].error.provider

\* C21 as stated: every provider error (quota exceeded, invalid credentials,
\* provider error message, transport failure) that process or generate-podcast
\* reports is reported with a text that names the provider that failed,
\* OpenRouter or OpenAI.
C21_ProviderErrorNamesProvider ==
    ProviderErrorSurfaced(resp)
        => /\ NamedProvider(resp) \in Providers
           /\ NamedProvider(resp) = Provider(env)


(***************************************************************************)
(* The stages specification: the four webhook stages called in any order   *)
(***************************************************************************)
StagesEnvs ==
    {NoEnv,
     [NoEnv EXCEPT !.OPENAI_API_KEY = Str(<<"o">>),
                   !.MINIO_ACCESS_KEY = Str(<<"k">>), !.MINIO_SECRET_KEY = Str(<<"s">>)]}

StagesInputs ==
    [jobIds |-> {Undef, Str(J_1)},
     titles |-> {Undef},
     conversations |-> {Undef, OneTurn},
     flags |-> {Bool(FALSE), Bool(TRUE)},
     tts |-> {TtsPlain, TtsFailure},
     fsFaults |-> FsFaults,
     faultSets |-> {{}, {"putObject"}}]

InitStages ==
    /\ env \in StagesEnvs
    /\ dirExists \in BOOLEAN
    /\ files = NoFiles
    /\ bucket = NoBucket
    /\ resp = NoResp
    /\ approved = NoFiles
    /\ owner = NoFiles
    /\ InitRest

ReceiveStage ==
    ReceiveCall({r \in ReceiveRequests : r.language \in {Undef, Str(<<"p", "l">>)}},
                {<<1, 2, 3, 4, 5, 33>>})

ProcessStage ==
    ProcessCall(ProcessRequests, {r \in Runs : r.emitted \in {0, PartialCount(r.n)}})

ApproveStage == ApproveCall(StagesInputs)

NextStages == ReceiveStage \/ ProcessStage \/ ApproveStage \/ Download

SpecStages == InitStages /\ [][NextStages]_vars

(***************************************************************************)
(* Claims about the stages' responses (SpecStages)                         *)
(***************************************************************************)
Stages == {"receive", "process", "approve", "download"}

\* every response but the bytes of a served file is a JSON object
IsJsonResponse(r) == ~(r.stage = "download" /\ r.status = 200)

\* C16 as stated: every response of the four stages is a JSON envelope with a
\* boolean success field; every failure carries success:false, an error
\* string and a status in {400, 404, 500}.
C16_EnvelopeAlwaysHasSuccess ==
    resp.stage \in Stages =>
        /\ IsJsonResponse(resp)
        /\ "success" \in DOMAIN resp.body
        /\ resp.body.success \in BOOLEAN
        /\ resp.status # 200
              => /\ resp.body.success = FALSE
                 /\ "error" \in DOMAIN resp.body
                 /\ resp.status \in {400, 404, 500}

\* C16 amended: every failure response of the four stages is a JSON object
\* with an error string and no other field, under a status in {400, 404, 500};
\* every successful response of receive, process and approve is a JSON
\* object with success:true; a successful download is the file's bytes.
C16_FailureHasErrorSuccessOnlyOn200 ==
    resp.stage \in Stages =>
        /\ resp.status \in {200, 400, 404, 500}
        /\ resp.status # 200 => DOMAIN resp.body = {"error"}
        /\ (resp.status = 200 /\ resp.stage # "download")
              => ("success" \in DOMAIN resp.body /\ resp.body.success = TRUE)
        /\ (resp.status = 200 /\ resp.stage = "download")
              => resp.body \in Seq(0..255)

\* C16 witness: a download of an unknown job id answered 404 with an error,
\* on a process whose approve had answered before
C16_Witness ==
    /\ resp.stage = "download"
    /\ resp.status = 404
    /\ resp.body = [error |-> "File not found for this job ID"]
    /\ DOMAIN files # {}
    /\ Len(issued) > 0


(***************************************************************************)
(* approve: the synthesis request (dialogueRequest) built from the         *)
(* conversation and the caller's voices                                    *)
(***************************************************************************)
DefaultVoice1 ==
    <<"F", "F", "7", "K", "d", "o", "b", "W", "P", "a", "i", "R", "0", "v", "k", "c", "A", "L", "H", "F">>
DefaultVoice2 ==
    <<"B", "p", "j", "G", "u", "f", "P", "i", "o", "b", "T", "7", "9", "j", "2", "v", "t", "j", "4">>

\* a lookup that knows both tags and gives the first voice to any other
VoiceIdOfSecondTag(speaker, voice1Id, voice2Id) ==
    IF StrictEq(speaker, SPEAKER2) THEN voice2Id ELSE voice1Id

\* item.speaker === 'Speaker1' ? voice1Id : voice2Id
VoiceIdOf(speaker, voice1Id, voice2Id) ==
    IF StrictEq(speaker, SPEAKER1) THEN voice1Id ELSE voice2Id

\* conversation.map(item => ({ text: item.text, voiceId: ... })) with
\* voice1Id = voice1 || default, voice2Id = voice2 || default
DialogueInputs(conversation, voice1, voice2) ==
    [i \in DOMAIN conversation.a |->
        [text |-> conversation.a[i].text,
         voiceId |-> VoiceIdOf(conversation.a[i].speaker,
                               OrDefault(voice1, DefaultVoice1),
                               OrDefault(voice2, DefaultVoice2))]]

\* const dialogueRequest = { inputs: dialogueInputs }
DialogueRequest(conversation, voice1, voice2) ==
    [inputs |-> DialogueInputs(conversation, voice1, voice2)]

\* the turns the dialogue specification draws from: both tags of the
\* generator, a tag that differs in case only, and a turn without a speaker
TurnInputs ==
    [speaker : {Str(SPEAKER1), Str(SPEAKER2),
                Str(<<"s", "p", "e", "a", "k", "e", "r", "1">>), Undef},
     text : {Str(<<"H", "i">>), Str(<<>>)}]

ConversationInputs ==
    {Arr(<<a>>) : a \in TurnInputs}
        \cup {Arr(<<a, b>>) : a \in TurnInputs, b \in TurnInputs}
        \cup {Arr(<<[speaker |-> Str(SPEAKER2), text |-> Str(<<"c">>)],
                    [speaker |-> Str(SPEAKER1), text |-> Str(<<"a">>)],
                    [speaker |-> Str(SPEAKER2), text |-> Str(<<"b">>)]>>)}

VoiceInputs == {Undef, Str(<<>>), Str(<<"v", "A">>), Str(<<"v", "B">>)}

InitDialogue ==
    /\ env = NoEnv
    /\ dirExists = FALSE
    /\ files = NoFiles
    /\ bucket = NoBucket
    /\ resp = NoResp
    /\ approved = NoFiles
    /\ owner = NoFiles
    /\ InitRest

\* approve up to its call of createDialogue, on a request that passed the
\* two validations
BuildDialogueRequest ==
    /\ \E conversation \in ConversationInputs, voice1 \in VoiceInputs,
          voice2 \in VoiceInputs \ {Str(<<"v", "A">>)} :
          fnCall' = [fn |-> "dialogue", conversation |-> conversation,
                     voice1 |-> voice1, voice2 |-> voice2,
                     request |-> DialogueRequest(conversation, voice1, voice2)]
    /\ FnRest

NextDialogue == BuildDialogueRequest

SpecDialogue == InitDialogue /\ [][NextDialogue]_vars

\* the voice the caller named, or the documented default when the field is
\* absent or the empty string
VoiceOrDefault(voice, default) ==
    IF voice = Undef \/ voice = Str(<<>>) THEN default ELSE voice.s

Bytes1 == <<65>>
Bytes2 == <<66, 67>>

\* a call that has passed the validations and is about to await createDialogue
NewCall(jobId, title, uploadToMinIO, audio) ==
    [pc |-> "createDialogue",
     req |-> [jobId |-> Str(jobId), title |-> title, uploadToMinIO |-> uploadToMinIO],
     audio |-> audio,
     filename |-> LocalFilename(title, jobId),
     saw |-> "unknown",
     threw |-> "none",
     ops |-> <<>>,
     minioUrl |-> NoUrl,
     status |-> 0]

\* two calls for different job ids, with any titles
CallPairs ==
    {(1 :> NewCall(J_1, t1, Bool(u), Bytes1)) @@ (2 :> NewCall(JOne, t2, Bool(u), Bytes2)) :
        t1 \in {Undef, Str(<<"a">>)}, t2 \in {Str(<<"a">>), Str(<<"a", " ", "j">>)},
        u \in BOOLEAN}

InitConcurrent ==
    /\ env = [NoEnv EXCEPT !.MINIO_ACCESS_KEY = Str(<<"k">>),
                           !.MINIO_SECRET_KEY = Str(<<"s">>)]
    /\ dirExists \in BOOLEAN
    /\ files = NoFiles
    /\ bucket \in {NoBucket, [exists |-> TRUE, policy |-> "private"]}
    /\ resp = NoResp
    /\ approved = NoFiles
    /\ owner = NoFiles
    /\ clock = 0
    /\ issued = <<>>
    /\ fnCall = [fn |-> "none"]
    /\ calls \in CallPairs
    /\ ui = NoUi

\* call c moves to pc with op added to the calls it has made
Moved(c, pc, op) == [calls[c] EXCEPT !.pc = pc, !.ops = Append(@, op)]

ConcurrentRest == UNCHANGED <<env, clock, issued, fnCall, ui>>

\* const result = await createDialogue(dialogueRequest), result.ok
CreateDialogueStep(c) ==
    /\ calls[c].pc = "createDialogue"
    /\ calls' = [calls EXCEPT ![c] = Moved(c, "access", "createDialogue")]
    /\ UNCHANGED <<dirExists, files, bucket, resp, approved, owner>>
    /\ ConcurrentRest

\* ensureArchiveDir: await fs.access(ARCHIVE_DIR)
AccessStep(c) ==
    /\ calls[c].pc = "access"
    /\ calls' = [calls EXCEPT
                    ![c] = Moved(c, IF dirExists THEN "writeFile" ELSE "mkdir", "access")]
    /\ UNCHANGED <<dirExists, files, bucket, resp, approved, owner>>
    /\ ConcurrentRest

\* ensureArchiveDir: await fs.mkdir(ARCHIVE_DIR, { recursive: true }), which
\* succeeds on a directory that is already there
MkdirStep(c) ==
    /\ calls[c].pc = "mkdir"
    /\ dirExists' = TRUE
    /\ calls' = [calls EXCEPT ![c] = Moved(c, "writeFile", "mkdir")]
    /\ UNCHANGED <<files, bucket, resp, approved, owner>>
    /\ ConcurrentRest

\* await fs.writeFile(filePath, audioBuffer): the file is created or replaced
WriteFileStep(c) ==
    /\ calls[c].pc = "writeFile"
    /\ files' = (calls[c].filename :> calls[c].audio) @@ files
    /\ owner' = (calls[c].filename :> calls[c].req.jobId.s) @@ owner
    /\ approved' = (calls[c].req.jobId.s :> calls[c].audio) @@ approved
    /\ calls' = [calls EXCEPT
                    ![c] = Moved(c, IF UploadRequested(calls[c].req.uploadToMinIO)
                                    THEN "bucketExists" ELSE "respond", "writeFile")]
    /\ UNCHANGED <<dirExists, bucket, resp>>
    /\ ConcurrentRest

\* an upload that creates the bucket whatever bucketExists answered
NeedsMakeBucketAlways(exists) == TRUE

\* if (!bucketExists)
NeedsMakeBucket(exists) == ~exists

\* const bucketExists = await minioClient.bucketExists(bucketName)
BucketExistsStep(c) ==
    /\ calls[c].pc = "bucketExists"
    /\ calls' = [calls EXCEPT
                    ![c] = [Moved(c, IF NeedsMakeBucket(bucket.exists)
                                     THEN "makeBucket" ELSE "setBucketPolicy",
                                  "bucketExists")
                                EXCEPT !.saw = IF bucket.exists THEN "present" ELSE "absent"]]
    /\ UNCHANGED <<dirExists, files, bucket, resp, approved, owner>>
    /\ ConcurrentRest

\* await minioClient.makeBucket(bucketName, 'us-east-1'): creates the bucket;
\* on a bucket that is there the service rejects the call and the rejection
\* leaves through the catch of uploadToMinIOStorage
MakeBucketStep(c) ==
    /\ calls[c].pc = "makeBucket"
    /\ IF bucket.exists
       THEN /\ calls' = [calls EXCEPT
                            ![c] = [Moved(c, "respond", "makeBucket")
                                        EXCEPT !.threw = "makeBucket"]]
            /\ UNCHANGED bucket
       ELSE /\ calls' = [calls EXCEPT ![c] = Moved(c, "setBucketPolicy", "makeBucket")]
            /\ bucket' = [exists |-> TRUE, policy |-> "private"]
    /\ UNCHANGED <<dirExists, files, resp, approved, owner>>
    /\ ConcurrentRest

\* an upload that gives up when the policy cannot be set
AfterSetBucketPolicyStrict(ok) == IF ok THEN "putObject" ELSE "respond"

\* the try/catch around setBucketPolicy: the upload goes on either way
AfterSetBucketPolicy(ok) == "putObject"

\* await minioClient.setBucketPolicy(bucketName, ...), which the service may
\* refuse (no permission)
SetBucketPolicyStep(c) ==
    /\ calls[c].pc = "setBucketPolicy"
    /\ \E ok \in BOOLEAN :
          /\ bucket' = IF ok THEN [bucket EXCEPT !.policy = "public"] ELSE bucket
          /\ calls' = [calls EXCEPT
                          ![c] = [Moved(c, AfterSetBucketPolicy(ok), "setBucketPolicy")
                                      EXCEPT !.threw = IF ok THEN @ ELSE "setBucketPolicy"]]
    /\ UNCHANGED <<dirExists, files, resp, approved, owner>>
    /\ ConcurrentRest

\* await minioClient.putObject(bucketName, filename, audioBuffer, ...)
PutObjectStep(c) ==
    /\ calls[c].pc = "putObject"
    /\ calls' = [calls EXCEPT ![c] = Moved(c, "issueUrl", "putObject")]
    /\ UNCHANGED <<dirExists, files, bucket, resp, approved, owner>>
    /\ ConcurrentRest

\* the URL of the uploaded object, by the policy the bucket has now
IssueUrlStep(c) ==
    /\ calls[c].pc = "issueUrl"
    /\ calls' = [calls EXCEPT
                    ![c] = [Moved(c, "respond", "getBucketPolicy")
                                EXCEPT !.minioUrl =
                                    IssueUrl(ResolveTargetApprove(env),
                                             OrDefault(env.MINIO_BUCKET_NAME, PODCAST),
                                             RemoteKey(calls[c].req.title, calls[c].req.jobId.s),
                                             {}, bucket).url]]
    /\ UNCHANGED <<dirExists, files, bucket, resp, approved, owner>>
    /\ ConcurrentRest

\* return NextResponse.json({ success: true, ... })
RespondStep(c) ==
    /\ calls[c].pc = "respond"
    /\ calls' = [calls EXCEPT ![c] = [calls[c] EXCEPT !.pc = "done", !.status = 200]]
    /\ resp' = [stage |-> "approve", req |-> calls[c].req, status |-> 200,
                body |-> [success |-> TRUE,
                          jobId |-> calls[c].req.jobId.s,
                          downloadUrl |-> IF calls[c].minioUrl # NoUrl THEN calls[c].minioUrl
                                          ELSE LocalDownloadUrl(calls[c].req.jobId.s),
                          minioUrl |-> calls[c].minioUrl,
                          filename |-> calls[c].filename,
                          message |-> "Audio generated successfully"],
                ops |-> calls[c].ops]
    /\ UNCHANGED <<dirExists, files, bucket, approved, owner>>
    /\ ConcurrentRest

NextConcurrent ==
    \/ \E c \in DOMAIN calls : CreateDialogueStep(c)
    \/ \E c \in DOMAIN calls : AccessStep(c)
    \/ \E c \in DOMAIN calls : MkdirStep(c)
    \/ \E c \in DOMAIN calls : WriteFileStep(c)
    \/ \E c \in DOMAIN calls : BucketExistsStep(c)
    \/ \E c \in DOMAIN calls : MakeBucketStep(c)
    \/ \E c \in DOMAIN calls : SetBucketPolicyStep(c)
    \/ \E c \in DOMAIN calls : PutObjectStep(c)
    \/ \E c \in DOMAIN calls : IssueUrlStep(c)
    \/ \E c \in DOMAIN calls : RespondStep(c)

SpecConcurrent == InitConcurrent /\ [][NextConcurrent]_vars

(***************************************************************************)
(* Claims about calls in flight together (SpecConcurrent)                  *)
(***************************************************************************)
AllDone == DOMAIN calls # {} /\ \A c \in DOMAIN calls : calls[c].pc = "done"

\* C23 as stated: two approve calls for different job ids, with any titles
\* and in any interleaving, are independent: they write different files, and
\* when both have answered each job's file holds that job's audio bytes.
C23_DifferentJobsIndependent ==
    AllDone =>
        \A c \in DOMAIN calls :
            /\ \A d \in DOMAIN calls \ {c} : calls[d].filename # calls[c].filename
            /\ calls[c].filename \in DOMAIN files
            /\ files[calls[c].filename] = calls[c].audio

\* C25: during an upload makeBucket is called only after bucketExists
\* answered false, directly after it, and never after it answered true; when
\* two uploads in flight both saw the bucket absent and the makeBucket of one
\* is rejected because the other created the bucket, neither approve fails:
\* every call that answers, answers 200 with success:true.
C25_MakeBucketOnlyIfAbsentRaceNotFatal ==
    /\ \A c \in DOMAIN calls :
          /\ \A i \in DOMAIN calls[c].ops :
                calls[c].ops[i] = "makeBucket"
                    => (calls[c].saw = "absent" /\ calls[c].ops[i - 1] = "bucketExists")
          /\ calls[c].saw = "present"
                => \A i \in DOMAIN calls[c].ops : calls[c].ops[i] # "makeBucket"
          /\ calls[c].threw = "makeBucket" => calls[c].pc \in {"respond", "done"}
          /\ calls[c].pc = "done" => calls[c].status = 200
    /\ (resp.stage = "approve" /\ DOMAIN calls # {})
          => (resp.status = 200 /\ resp.body.success = TRUE)

\* C25 witness: both calls saw the bucket absent, the makeBucket of the first
\* was rejected, the second went on to putObject, and both answered 200
C25_Witness ==
    /\ AllDone
    /\ calls[1].saw = "absent" /\ calls[2].saw = "absent"
    /\ calls[1].threw = "makeBucket"
    /\ calls[1].minioUrl = NoUrl
    /\ \E i \in DOMAIN calls[2].ops : calls[2].ops[i] = "putObject"
    /\ calls[1].status = 200 /\ calls[2].status = 200
    /\ resp.status = 200 /\ resp.body.success = TRUE

\* the calls call c has made after its setBucketPolicy
AfterPolicy(c) ==
    {calls[c].ops[i] : i \in {j \in DOMAIN calls[c].ops :
                                \E k \in 1..(j - 1) : calls[c].ops[k] = "setBucketPolicy"}}

\* C26: a rejected setBucketPolicy is swallowed: the upload goes on to
\* putObject and to the issuance of the URL, its result is a success with a
\* URL, and approve answers 200 success:true with that URL as minioUrl and
\* downloadUrl, as it does when the policy was set.
C26_PolicyFailureSwallowed ==
    \A c \in DOMAIN calls :
        calls[c].threw = "setBucketPolicy"
            => /\ calls[c].pc \in {"putObject", "issueUrl", "respond", "done"}
               /\ calls[c].pc # "putObject" => "putObject" \in AfterPolicy(c)
               /\ calls[c].pc \in {"respond", "done"}
                     => /\ "getBucketPolicy" \in AfterPolicy(c)
                        /\ calls[c].minioUrl.kind \in {"direct", "presigned"}
               /\ (calls[c].pc = "done" /\ resp.req = calls[c].req)
                     => /\ resp.status = 200
                        /\ resp.body.success = TRUE
                        /\ resp.body.minioUrl = calls[c].minioUrl
                        /\ resp.body.downloadUrl = calls[c].minioUrl

\* C26 witness: the setBucketPolicy of the first call was rejected on a
\* bucket it had just created; the call still put its object and answered 200
\* with a presigned URL
C26_Witness ==
    /\ calls[1].pc = "done"
    /\ calls[1].threw = "setBucketPolicy"
    /\ calls[1].saw = "absent"
    /\ calls[1].minioUrl.kind = "presigned"
    /\ resp.req = calls[1].req
    /\ resp.status = 200
    /\ resp.body.minioUrl = calls[1].minioUrl


(***************************************************************************)
(* Paths in the archive directory: path.join(ARCHIVE_DIR, filename) as     *)
(* approve, the archive download (src/app/api/archive/[filename]/route.ts) *)
(* and the archive DELETE (src/app/api/scrape/route.ts) compute it         *)
(***************************************************************************)
DOTDOT == <<".", ".">>
SLASH == <<"/">>
BACKSLASH == <<"\\">>
JSONEXT == <<".", "j", "s", "o", "n">>

\* s.split('/')
RECURSIVE SplitSlash(_)
SplitSlash(s) ==
    IF IndexOfAny(s, {"/"}, 1) = 0 THEN <<s>>
    ELSE <<SubSeq(s, 1, IndexOfAny(s, {"/"}, 1) - 1)>>
             \o SplitSlash(SubSeq(s, IndexOfAny(s, {"/"}, 1) + 1, Len(s)))

\* path.normalize, one segment further: '' and '.' are dropped, '..' removes
\* the segment before it or, with none left, climbs out of the base
NormalizeStep(acc, seg) ==
    IF seg = <<>> \/ seg = <<".">> THEN acc
    ELSE IF seg = DOTDOT
    THEN (IF acc.segs # <<>>
          THEN [acc EXCEPT !.segs = SubSeq(@, 1, Len(@) - 1)]
          ELSE [acc EXCEPT !.up = @ + 1])
    ELSE [acc EXCEPT !.segs = Append(@, seg)]

RECURSIVE NormalizeFrom(_, _, _)
NormalizeFrom(segs, i, acc) ==
    IF i > Len(segs) THEN acc
    ELSE NormalizeFrom(segs, i + 1, NormalizeStep(acc, segs[i]))

\* path.join(ARCHIVE_DIR, filename), relative to ARCHIVE_DIR: up levels above
\* it, then the segments segs (POSIX: a backslash is an ordinary character)
PathJoin(filename) == NormalizeFrom(SplitSlash(filename), 1, [up |-> 0, segs |-> <<>>])

\* the path is a direct entry of ARCHIVE_DIR
DirectEntry(p) == p.up = 0 /\ Len(p.segs) = 1

\* the path is ARCHIVE_DIR itself or one of its ancestors
IsBaseOrAbove(p) == p.segs = <<>>

\* fs.writeFile(filePath, ...) can create the file: its parent directory is
\* ARCHIVE_DIR or an ancestor of it (the archive has no subdirectories)
ParentExists(p) == Len(p.segs) = 1

\* approve from the filename to the write: where the file lands, if it does
ApproveWritePath(title, jobId) ==
    [stage |-> "approvePath", title |-> title, jobId |-> jobId,
     filename |-> LocalFilename(title, jobId),
     path |-> PathJoin(LocalFilename(title, jobId)),
     status |-> IF ParentExists(PathJoin(LocalFilename(title, jobId))) THEN 200 ELSE 500,
     ops |-> <<"writeFile">>]

\* filename.includes('..') || filename.includes('/') || filename.includes('\\')
Traversal(filename) ==
    Includes(filename, DOTDOT) \/ Includes(filename, SLASH) \/ Includes(filename, BACKSLASH)

ArchiveError(stage, filename, status, error, ops) ==
    [stage |-> stage, filename |-> filename, status |-> status,
     body |-> [error |-> error], ops |-> ops]

\* GET /api/archive/[filename]
ArchiveGET(filename) ==
    IF Traversal(filename)
    THEN ArchiveError("archiveGet", filename, 400, "Invalid filename", <<>>)
    ELSE IF ~IsBaseOrAbove(PathJoin(filename)) /\ filename \notin DOMAIN files
    THEN ArchiveError("archiveGet", filename, 404, "File not found", <<"access">>)
    ELSE IF IsBaseOrAbove(PathJoin(filename))
    THEN ArchiveError("archiveGet", filename, 500, "Failed to serve file",
                      <<"access", "readFile">>)
    ELSE [stage |-> "archiveGet", filename |-> filename, status |-> 200,
          body |-> files[filename], ops |-> <<"access", "readFile">>]

\* filePath.replace('.mp3', '.json'), on the filename part of the path
ReplaceFirst(s, sub, by) ==
    IF ~Includes(s, sub) THEN s
    ELSE LET i == CHOOSE k \in 0..(Len(s) - Len(sub)) :
                      /\ SubSeq(s, k + 1, k + Len(sub)) = sub
                      /\ \A j \in 0..(k - 1) : SubSeq(s, j + 1, j + Len(sub)) # sub
         IN  SubSeq(s, 1, i) \o by \o SubSeq(s, i + Len(sub) + 1, Len(s))

\* DELETE /api/scrape?filename=...: the response and the archive afterwards
ArchiveDELETE(filename) ==
    IF filename = <<>>
    THEN [files |-> files,
          resp |-> ArchiveError("archiveDelete", filename, 400, "Filename is required", <<>>)]
    ELSE IF Traversal(filename)
    THEN [files |-> files,
          resp |-> ArchiveError("archiveDelete", filename, 400, "Invalid filename", <<>>)]
    ELSE IF ~IsBaseOrAbove(PathJoin(filename)) /\ filename \notin DOMAIN files
    THEN [files |-> files,
          resp |-> ArchiveError("archiveDelete", filename, 404, "File not found",
                                <<"access">>)]
    ELSE IF IsBaseOrAbove(PathJoin(filename))
    THEN [files |-> files,
          resp |-> ArchiveError("archiveDelete", filename, 500, "Failed to delete file",
                                <<"access", "unlink">>)]
    ELSE [files |-> [f \in DOMAIN files \ {filename, ReplaceFirst(filename, MP3, JSONEXT)}
                        |-> files[f]],
          resp |-> [stage |-> "archiveDelete", filename |-> filename, status |-> 200,
                    body |-> [success |-> TRUE, message |-> "File deleted successfully"],
                    ops |-> <<"access", "unlink", "unlink">>]]

\* names of up to two and up to three characters over a letter, the dot and
\* both slashes, and the names of the files the archive starts with
PathChars == {"a", ".", "/", "\\"}
PairNames ==
    {<<a>> : a \in PathChars} \cup {<<a, b>> : a \in PathChars, b \in PathChars}
ShortNames ==
    PairNames \cup {<<a, b, c>> : a \in PathChars, b \in PathChars, c \in PathChars}
A_MP3 == <<"a">> \o MP3
A_JSON == <<"a">> \o JSONEXT

FilenameInputs == ShortNames \cup {<<>>, A_MP3, A_JSON}

\* job ids as receive mints them, short ones with dots and slashes, and ones
\* that climb: '/../a', '/../../x', '/../../../x'
JobIdInputs ==
    PairNames
        \cup {J_1, MintJobId(ClockStart, <<1, 2, 3, 4, 5, 33>>),
              <<"/", ".", ".", "/", "a">>,
              <<"/", ".", ".", "/", ".", ".", "/", "x">>,
              <<"/", ".", ".", "/", ".", ".", "/", ".", ".", "/", "x">>}

InitArchive ==
    /\ env = NoEnv
    /\ dirExists = TRUE
    /\ files = (A_MP3 :> <<65>>) @@ (A_JSON :> <<1>>) @@ (<<"a">> :> <<66, 67>>)
    /\ bucket = NoBucket
    /\ resp = NoResp
    /\ approved = NoFiles
    /\ owner = NoFiles
    /\ InitRest

ArchiveRest == UNCHANGED <<env, dirExists, bucket, clock, issued, approved, owner, fnCall,
                           calls, ui>>

ApproveFilePath ==
    /\ \E title \in {Undef, Str(<<"a", "/">>)}, jobId \in JobIdInputs :
          resp' = ApproveWritePath(title, jobId)
    /\ UNCHANGED files
    /\ ArchiveRest

ArchiveGet ==
    /\ \E filename \in FilenameInputs \ {<<>>} : resp' = ArchiveGET(filename)
    /\ UNCHANGED files
    /\ ArchiveRest

ArchiveDelete ==
    /\ \E filename \in FilenameInputs :
          \E out \in {ArchiveDELETE(filename)} :
              /\ files' = out.files
              /\ resp' = out.resp
    /\ ArchiveRest

NextArchive == ApproveFilePath \/ ArchiveGet \/ ArchiveDelete

SpecArchive == InitArchive /\ [][NextArchive]_vars

\* C27 as stated: no file operation leaves the archive directory: whatever
\* the job id, the file approve writes is a direct entry of the archive
\* directory, and the archive GET and DELETE answer a filename holding '..',
\* '/' or '\' with 400 before any filesystem call.
C27_NoOperationEscapesArchive ==
    /\ (resp.stage = "approvePath" /\ resp.status = 200)
          => (resp.path.up = 0 /\ Len(resp.path.segs) = 1)
    /\ (/\ resp.stage \in {"archiveGet", "archiveDelete"}
        /\ \E i \in DOMAIN resp.filename :
              \/ resp.filename[i] \in {"/", "\\"}
              \/ (i < Len(resp.filename)
                    /\ resp.filename[i] = "." /\ resp.filename[i + 1] = "."))
          => (resp.status = 400 /\ resp.ops = <<>>)


(***************************************************************************)
(* The client page (src/app/page.tsx, Home): the form's handleSubmit with  *)
(* its reader of the generate-podcast stream, the conversation editor and  *)
(* the audio request, manual and automatic                                 *)
(***************************************************************************)
MaxSubmits == 2
MaxPartials == 1
MaxEdits == 1
MaxTts == 2

NoConversation == [kind |-> "null", ver |-> 0]

\* the page after its first render, with the auto mode as the saved
\* settings have it
HomePage(auto) ==
    [page |-> "home",
     phase |-> "idle",              \* where handleSubmit is: idle, fetching, reading
     isLoading |-> FALSE,
     conversation |-> NoConversation,
     isConversationComplete |-> FALSE,
     isEditingConversation |-> FALSE,
     isGeneratingAudio |-> FALSE,
     audioUrl |-> "null",
     hasRequestedAudio |-> FALSE,
     autoGenerateAudio |-> auto,
     sub |-> 0,                     \* history: submissions so far
     completeSub |-> 0,             \* history: the submission whose 'complete' arrived last
     ver |-> 0,                     \* history: complete or edited conversations so far
     edits |-> 0,                   \* history: edits begun so far
     partials |-> 0,                \* partial events read in this submission
     terminalSeen |-> FALSE,        \* the stream has delivered its last event
     lastLine |-> "none",           \* the line the reader handled last
     alert |-> "none",              \* the alert() shown last in this submission
     log |-> "none",                \* the console.error written last
     tts |-> <<>>]                  \* history: the text-to-speech requests sent

InitClient ==
    /\ env = NoEnv
    /\ dirExists = FALSE
    /\ files = NoFiles
    /\ bucket = NoBucket
    /\ resp = NoResp
    /\ approved = NoFiles
    /\ owner = NoFiles
    /\ clock = 0
    /\ issued = <<>>
    /\ fnCall = [fn |-> "none"]
    /\ calls = NoCalls
    /\ ui \in {HomePage(auto) : auto \in BOOLEAN}

ClientRest ==
    UNCHANGED <<env, dirExists, files, bucket, resp, clock, issued, approved, owner,
                fnCall, calls>>

\* handleSubmit up to its first await: the button is disabled while isLoading
Submit ==
    /\ ~ui.isLoading
    /\ ui.sub < MaxSubmits
    /\ ui' = [ui EXCEPT !.isLoading = TRUE,
                        !.phase = "fetching",
                        !.audioUrl = "null",
                        !.conversation = NoConversation,
                        !.isConversationComplete = FALSE,
                        !.hasRequestedAudio = FALSE,
                        !.sub = @ + 1,
                        !.partials = 0,
                        !.terminalSeen = FALSE,
                        !.lastLine = "none",
                        !.alert = "none",
                        !.log = "none"]
    /\ ClientRest

\* the response of /api/generate-podcast arrives: not ok (a JSON error, thrown
\* to the outer catch, which alerts), or the stream the reader is taken from
FetchDone ==
    /\ ui.phase = "fetching"
    /\ \E ok \in BOOLEAN :
          ui' = IF ok THEN [ui EXCEPT !.phase = "reading"]
                ELSE [ui EXCEPT !.phase = "idle", !.isLoading = FALSE,
                                !.alert = "Error: <errorData.error>",
                                !.log = "Error generating podcast:"]
    /\ ClientRest

\* update.type === 'error': throw new Error(errorMsg) inside the try whose
\* catch (parseError) logs and lets the loop go on
OnErrorEvent(u) ==
    [u EXCEPT !.lastLine = "error", !.terminalSeen = TRUE,
              !.log = "Error parsing streaming response:"]

\* the body of the loop over the lines of the stream, for one line
OnLine(u, line) ==
    CASE line = "partial" ->
            [u EXCEPT !.conversation = [kind |-> "partial", ver |-> u.ver],
                      !.partials = @ + 1, !.lastLine = line]
      [] line = "partialEmpty" ->
            [u EXCEPT !.partials = @ + 1, !.lastLine = line]
      [] line = "complete" ->
            [u EXCEPT !.conversation = [kind |-> "complete", ver |-> u.ver + 1],
                      !.ver = @ + 1,
                      !.isConversationComplete = TRUE,
                      !.completeSub = u.sub,
                      !.terminalSeen = TRUE, !.lastLine = line]
      [] line = "error" -> OnErrorEvent(u)
      [] line = "garbage" ->
            [u EXCEPT !.lastLine = line, !.log = "Error parsing streaming response:"]

\* the lines the server can send next: partial objects (the first ones without
\* a conversation), then one terminal event; a line that is not JSON stands
\* for whatever else the transport delivers
NextLines(u) ==
    IF u.terminalSeen THEN {}
    ELSE (IF u.partials < MaxPartials THEN {"partial", "partialEmpty", "garbage"} ELSE {})
             \cup {"complete", "error"}

ReadLine ==
    /\ ui.phase = "reading"
    /\ \E line \in NextLines(ui) : ui' = OnLine(ui, line)
    /\ ClientRest

\* reader.read() answers done: break, then finally { setIsLoading(false) }
StreamDone ==
    /\ ui.phase = "reading"
    /\ ui.terminalSeen
    /\ ui' = [ui EXCEPT !.phase = "idle", !.isLoading = FALSE]
    /\ ClientRest

\* a handler that asks only for a conversation
CanGenerateAnyConversation(u) == u.conversation.kind # "null"

\* if (!conversation || !isConversationComplete) return
CanGenerate(u) == u.conversation.kind # "null" /\ u.isConversationComplete

\* handleGenerateAudio up to its fetch of /api/text-to-speech
SendTts(u, auto) ==
    [u EXCEPT !.isGeneratingAudio = TRUE,
              !.tts = Append(@, [auto |-> auto, conversation |-> u.conversation,
                                 sub |-> u.sub, completeSub |-> u.completeSub])]

\* the Generate Audio button, enabled with a conversation while no audio is
\* being generated
ClickGenerateAudio ==
    /\ ui.conversation.kind # "null" /\ ~ui.isGeneratingAudio
    /\ Len(ui.tts) < MaxTts
    /\ CanGenerate(ui)
    /\ ui' = SendTts(ui, FALSE)
    /\ ClientRest

\* the effect "Automatically start generating audio when conversation is
\* complete", run after a render in which its condition holds
AutoGenerateEffect ==
    /\ ui.page = "home"
    /\ ui.autoGenerateAudio /\ ui.isConversationComplete
    /\ ui.conversation.kind # "null"
    /\ ~ui.isGeneratingAudio /\ ui.audioUrl = "null" /\ ~ui.hasRequestedAudio
    /\ Len(ui.tts) < MaxTts
    /\ ui' = IF CanGenerate(ui)
             THEN SendTts([ui EXCEPT !.hasRequestedAudio = TRUE], TRUE)
             ELSE [ui EXCEPT !.hasRequestedAudio = TRUE]
    /\ ClientRest

\* the text-to-speech answer: setAudioUrl, or the catch's alert; finally
\* setIsGeneratingAudio(false)
TtsDone ==
    /\ ui.page = "home"
    /\ ui.isGeneratingAudio
    /\ \E ok \in BOOLEAN :
          ui' = IF ok THEN [ui EXCEPT !.isGeneratingAudio = FALSE, !.audioUrl = "audio"]
                ELSE [ui EXCEPT !.isGeneratingAudio = FALSE,
                                !.alert = "Error: <errorData.error>",
                                !.log = "Error generating audio:"]
    /\ ClientRest

\* handleEditConversation
EditConversation ==
    /\ ui.conversation.kind # "null"
    /\ ~ui.isEditingConversation
    /\ ui.edits < MaxEdits
    /\ ui' = [ui EXCEPT !.isEditingConversation = TRUE, !.edits = @ + 1]
    /\ ClientRest

\* handleSaveConversation with a text that parses to a conversation
SaveConversation ==
    /\ ui.page = "home"
    /\ ui.isEditingConversation
    /\ ui' = [ui EXCEPT !.conversation = [kind |-> "edited", ver |-> ui.ver + 1],
                        !.ver = @ + 1,
                        !.isEditingConversation = FALSE,
                        !.audioUrl = "null",
                        !.hasRequestedAudio = FALSE]
    /\ ClientRest

\* the auto mode switch
ToggleAutoGenerate ==
    /\ ui.page = "home"
    /\ ui' = [ui EXCEPT !.autoGenerateAudio = ~@]
    /\ ClientRest

NextClient ==
    \/ Submit \/ FetchDone \/ ReadLine \/ StreamDone
    \/ ClickGenerateAudio \/ AutoGenerateEffect \/ TtsDone
    \/ EditConversation \/ SaveConversation \/ ToggleAutoGenerate

SpecClient == InitClient /\ [][NextClient]_vars

\* C28 as stated: when the stream delivers an event of type 'error',
\* handleSubmit leaves its read loop through the error path, the user is
\* alerted with the error message, and isConversationComplete stays false; the
\* event is not handled the way an unparsable line is.
C28_ErrorEventAlertsAndEndsLoop ==
    (ui.page = "home" /\ ui.lastLine = "error")
        => /\ ui.phase = "idle"
           /\ ui.alert = "Error: <update.error>"
           /\ ui.log # "Error parsing streaming response:"
           /\ ~ui.isConversationComplete


\* C30: a text-to-speech request is sent only with a conversation present and
\* after the 'complete' event of the current submission arrived, so never for
\* a partial conversation; and with the auto mode, at most one automatic
\* request is sent for each completed or saved-after-edit conversation,
\* whatever the order of stream events, edits, answers and effect runs.
C30_TtsOnlyWhenCompleteAutoOnce ==
    ui.page = "home" =>
        /\ \A i \in DOMAIN ui.tts :
              /\ ui.tts[i].conversation.kind \in {"complete", "edited"}
              /\ ui.tts[i].sub > 0
              /\ ui.tts[i].completeSub = ui.tts[i].sub
        /\ \A i \in DOMAIN ui.tts : \A j \in DOMAIN ui.tts :
              (/\ ui.tts[i].auto /\ ui.tts[j].auto
               /\ ui.tts[i].conversation.ver = ui.tts[j].conversation.ver)
                  => i = j

\* C30 witness: in the second submission the complete conversation got its
\* automatic request, was then edited and saved, and the saved conversation
\* got one automatic request of its own
C30_Witness ==
    /\ ui.page = "home"
    /\ ui.sub = 2
    /\ Len(ui.tts) = 2
    /\ ui.tts[1].auto /\ ui.tts[2].auto
    /\ ui.tts[1].conversation.kind = "complete"
    /\ ui.tts[2].conversation.kind = "edited"
    /\ ui.tts[1].sub = 2 /\ ui.tts[2].sub = 2
    /\ ui.isGeneratingAudio

(***************************************************************************)
(* The client's history store in localStorage (loadHistory, saveHistory,   *)
(* addToHistory)                                                           *)
(***************************************************************************)
HistoryCap == 50
MaxAdds == 52
MaxStorageFaults == 1

\* history.slice(-n): the last n elements
SliceLast(h, n) == SubSeq(h, (IF Len(h) > n THEN Len(h) - n ELSE 0) + 1, Len(h))

\* history.unshift(item)
Unshift(h, item) == <<item>> \o h

\* item => ({ ...item, audioBase64: undefined })
WithoutAudio(h) == [i \in DOMAIN h |-> [h[i] EXCEPT !.audioBase64 = Undef]]

\* what localStorage holds after saveHistory(history): setItem stores the
\* limited history ("saved"), or throws and the copy without audio is stored
\* ("savedWithoutAudio"), or throws both times ("failed")
SaveHistory(stored, history, outcome) ==
    CASE outcome = "saved" -> SliceLast(history, HistoryCap)
      [] outcome = "savedWithoutAudio" -> WithoutAudio(SliceLast(history, HistoryCap))
      [] outcome = "failed" -> stored

\* the historyItem archiveAudio builds for its n-th call
HistoryItem(n) == [id |-> n, audioBase64 |-> Undef]

InitHistory ==
    /\ env = NoEnv
    /\ dirExists = FALSE
    /\ files = NoFiles
    /\ bucket = NoBucket
    /\ resp = NoResp
    /\ approved = NoFiles
    /\ owner = NoFiles
    /\ clock = 0
    /\ issued = <<>>
    /\ fnCall = [fn |-> "none"]
    /\ calls = NoCalls
    /\ ui = [page |-> "history", stored |-> <<>>, adds |-> 0, faults |-> 0,
             item |-> HistoryItem(0), outcome |-> "none"]

\* addToHistory(item): load, unshift, save
AddToHistory ==
    /\ ui.page = "history"
    /\ ui.adds < MaxAdds
    /\ \E outcome \in {"saved", "savedWithoutAudio", "failed"} :
          /\ outcome # "saved" => ui.faults < MaxStorageFaults
          /\ ui' = [ui EXCEPT
                       !.stored = SaveHistory(ui.stored,
                                              Unshift(ui.stored, HistoryItem(ui.adds + 1)),
                                              outcome),
                       !.adds = @ + 1,
                       !.faults = IF outcome = "saved" THEN @ ELSE @ + 1,
                       !.item = HistoryItem(ui.adds + 1),
                       !.outcome = outcome]
    /\ ClientRest

NextHistory == AddToHistory

SpecHistory == InitHistory /\ [][NextHistory]_vars

\* C29 as stated: after any sequence of addToHistory calls the persisted
\* history holds at most 50 items, and the item of the most recent call whose
\* save went through is among them: the cap drops the oldest, not the newest.
C29_CapKeepsNewest ==
    (ui.page = "history" /\ ui.adds > 0)
        => /\ Len(ui.stored) <= 50
           /\ ui.outcome # "failed"
                 => \E i \in DOMAIN ui.stored : ui.stored[i].id = ui.item.id


====
